---- MODULE Spec2Model ----
(***************************************************************************)
(* Analytic device-physics model of the GaN MOSFET simulator               *)
(* (pages/3_Simulation_Interface.py, pages/4_Graphs_and_Trends.py).        *)
(*                                                                         *)
(* The Python code computes with binary floating point.  Here a float is   *)
(* a decimal floating-point number [m, e] of value m * 10^e with a signed  *)
(* six-digit mantissa (100000 <= |m| <= 999999, or m = 0 and e = 0); every *)
(* arithmetic operation rounds its result to six digits (towards zero).    *)
(***************************************************************************)
EXTENDS Integers, Sequences, FiniteSets, TLC

----------------------------------------------------------------------------
(* Floating-point arithmetic                                               *)

Abs(n) == IF n < 0 THEN -n ELSE n

Sgn(n) == IF n < 0 THEN -1 ELSE IF n = 0 THEN 0 ELSE 1

\* integer quotient rounded towards zero
Quot(a, b) == Sgn(a) * Sgn(b) * (Abs(a) \div Abs(b))

RECURSIVE Pow10(_)
Pow10(k) == IF k <= 0 THEN 1 ELSE 10 * Pow10(k - 1)

RECURSIVE Norm(_, _)
\* the float of value m * 10^e, mantissa brought to six digits
Norm(m, e) ==
    IF m = 0 THEN [m |-> 0, e |-> 0]
    ELSE IF Abs(m) >= 1000000 THEN Norm(Quot(m, 10), e + 1)
    ELSE IF Abs(m) < 100000 THEN Norm(m * 10, e - 1)
    ELSE [m |-> m, e |-> e]

\* a float literal: F(27315, -2) is 273.15
F(m, e) == Norm(m, e)

FNeg(a) == [m |-> -a.m, e |-> a.e]

FAbs(a) == [m |-> Abs(a.m), e |-> a.e]

FMul(a, b) ==
    LET x  == Abs(a.m)
        y  == Abs(b.m)
        yh == y \div 1000
        yl == y % 1000
        p  == x * yh + ((x * yl) \div 1000)
    IN  Norm(Sgn(a.m) * Sgn(b.m) * p, a.e + b.e + 3)

\* b is not zero
FDiv(a, b) ==
    LET x  == Abs(a.m)
        y  == Abs(b.m)
        q1 == (x * 1000) \div y
        r1 == (x * 1000) % y
        q2 == (r1 * 1000) \div y
    IN  Norm(Sgn(a.m) * Sgn(b.m) * (q1 * 1000 + q2), a.e - b.e - 6)

FAdd(a, b) ==
    IF a.m = 0 THEN b
    ELSE IF b.m = 0 THEN a
    ELSE LET hi == IF a.e >= b.e THEN a ELSE b
             lo == IF a.e >= b.e THEN b ELSE a
             d  == hi.e - lo.e
             k  == IF d < 3 THEN d ELSE 3
         IN  IF d > 9 THEN hi
             ELSE Norm(hi.m * Pow10(k) + Quot(lo.m, Pow10(d - k)), hi.e - k)

FSub(a, b) == FAdd(a, FNeg(b))

\* a < b, exact on normalised floats
FLt(a, b) ==
    IF Sgn(a.m) # Sgn(b.m) THEN Sgn(a.m) < Sgn(b.m)
    ELSE IF a.m = 0 THEN FALSE
    ELSE IF a.m > 0 THEN a.e < b.e \/ (a.e = b.e /\ a.m < b.m)
    ELSE a.e > b.e \/ (a.e = b.e /\ a.m < b.m)

FLe(a, b) == ~FLt(b, a)

FMax(a, b) == IF FLt(a, b) THEN b ELSE a

RECURSIVE FPowInt(_, _)
\* a ** n for a natural number n
FPowInt(a, n) ==
    IF n = 0 THEN F(1, 0) ELSE IF n = 1 THEN a ELSE FMul(FPowInt(a, n - 1), a)

RECURSIVE RootSearch(_, _, _, _, _)
\* the largest mantissa r in lo..hi-1 with (r * 10^ex) ** q <= x
RootSearch(lo, hi, x, ex, q) ==
    IF hi - lo <= 1 THEN lo
    ELSE LET mid == (lo + hi) \div 2
         IN  IF FLe(FPowInt([m |-> mid, e |-> ex], q), x)
             THEN RootSearch(mid, hi, x, ex, q)
             ELSE RootSearch(lo, mid, x, ex, q)

\* x ** (1/q) for x > 0
FRoot(x, q) ==
    LET E == x.e + 5
        k == E \div q
    IN  [m |-> RootSearch(100000, 1000000, x, k - 5, q), e |-> k - 5]

\* a ** (p/q) for a > 0
FPow(a, p, q) == IF q = 1 THEN FPowInt(a, p) ELSE FRoot(FPowInt(a, p), q)

RECURSIVE ExpSeries(_, _, _, _)
\* sum of the terms x^k / k! for k = n .. 10, term being x^n / n!
ExpSeries(x, term, n, acc) ==
    IF n > 10 \/ term.m = 0 THEN acc
    ELSE ExpSeries(x, FDiv(FMul(term, x), F(n + 1, 0)), n + 1, FAdd(acc, term))

RECURSIVE FExp(_)
\* e ** x
FExp(x) ==
    IF FLt(F(5, -1), FAbs(x))
    THEN LET h == FExp(FMul(x, F(5, -1))) IN FMul(h, h)
    ELSE ExpSeries(x, F(1, 0), 0, F(0, 0))

----------------------------------------------------------------------------
(* Values a model function can hand back.  "float" is an ordinary finite   *)
(* float; "inf", "nan" and "complex" are returned objects that are not a   *)
(* finite real number; "ZeroDivisionError" and "KeyError" are raised.      *)

Val(v) == [kind |-> "float", v |-> v]

Special(k) == [kind |-> k, v |-> F(0, 0)]

IsRaised(r) == r.kind \in {"ZeroDivisionError", "KeyError"}

\* the two numeric types the pages pass: Python float/int ("py") and
\* numpy.float64 ("np", the elements of np.linspace)
NumKinds == {"py", "np"}

\* x / y
PyDiv(x, y, nk) ==
    IF y.m # 0 THEN Val(FDiv(x, y))
    ELSE IF nk = "py" THEN Special("ZeroDivisionError")
    ELSE IF x.m = 0 THEN Special("nan") ELSE Special("inf")

\* r ** (p/q) for a positive exponent p/q
PyPow(r, p, q, nk) ==
    IF r.kind # "float" THEN r
    ELSE IF r.v.m > 0 THEN Val(FPow(r.v, p, q))
    ELSE IF r.v.m = 0 THEN Val(F(0, 0))
    ELSE IF q = 1 THEN Val(FPowInt(r.v, p))
    ELSE IF nk = "py" THEN Special("complex") ELSE Special("nan")

\* c * r for a finite float c > 0
PyScale(c, r) == IF r.kind = "float" THEN Val(FMul(c, r.v)) ELSE r

----------------------------------------------------------------------------
(* Physics models of the Simulation page (3_Simulation_Interface.py)       *)

T_kelvin(T_celsius) == FAdd(T_celsius, F(27315, -2))

\* the mobility model referred to 25 C (298.15 K) instead of 300 K
mobility_temp_dep_ref25(mu_0, T_celsius, nk) ==
    PyScale(mu_0, PyPow(PyDiv(F(29815, -2), T_kelvin(T_celsius), nk), 3, 2, nk))

mobility_temp_dep(mu_0, T_celsius, nk) ==
    PyScale(mu_0, PyPow(PyDiv(F(300, 0), T_kelvin(T_celsius), nk), 3, 2, nk))

\* the Varshni term added instead of subtracted
Varshni_rising(Eg_0, T_celsius, alpha, beta, nk) ==
    LET Tk  == T_kelvin(T_celsius)
        quo == PyDiv(FMul(alpha, FMul(Tk, Tk)), FAdd(Tk, beta), nk)
    IN  IF quo.kind = "float" THEN Val(FAdd(Eg_0, quo.v)) ELSE quo

\* Varshni equation: Eg_0 - alpha * T^2 / (T + beta), alpha and beta given
Varshni(Eg_0, T_celsius, alpha, beta, nk) ==
    LET Tk  == T_kelvin(T_celsius)
        quo == PyDiv(FMul(alpha, FMul(Tk, Tk)), FAdd(Tk, beta), nk)
    IN  IF quo.kind = "float" THEN Val(FSub(Eg_0, quo.v)) ELSE quo

\* the Varshni equation evaluated on the Celsius temperature
bandgap_temp_dep_celsius(Eg_0, T_celsius, nk) ==
    LET quo == PyDiv(FMul(F(909, -6), FMul(T_celsius, T_celsius)),
                     FAdd(T_celsius, F(830, 0)), nk)
    IN  IF quo.kind = "float" THEN Val(FSub(Eg_0, quo.v)) ELSE quo

bandgap_temp_dep(Eg_0, T_celsius, nk) ==
    Varshni(Eg_0, T_celsius, F(909, -6), F(830, 0), nk)

breakdown_voltage_model(Eg, thickness, nk) ==
    LET pw == PyPow(Val(FDiv(Eg, F(34, -1))), 5, 2, nk)
    IN  IF pw.kind = "float"
        THEN Val(FMul(FMul(F(350, 0), pw.v), FDiv(thickness, F(2, -6))))
        ELSE pw

saturation_velocity_temp(T_celsius) ==
    FMul(F(25, 6), FRoot(FDiv(F(300, 0), T_kelvin(T_celsius)), 2))

\* a 64-bit float result: a nonzero value nearer to zero than to the
\* smallest positive double, 4.94e-324, is returned as 0.0
Underflow(x) == IF FLt(FAbs(x), F(247, -326)) THEN F(0, 0) ELSE x

\* leakage_current with the sign of the exponent dropped
leakage_current_growing(Eg, T_celsius, area) ==
    LET k == F(8617, -8)
        ex == Underflow(FExp(FDiv(Eg, FMul(FMul(F(2, 0), k), T_kelvin(T_celsius)))))
    IN  Underflow(FMul(FMul(area, F(1, -8)), ex))

leakage_current(Eg, T_celsius, area) ==
    LET k == F(8617, -8)
        ex == Underflow(FExp(FDiv(FNeg(Eg), FMul(FMul(F(2, 0), k), T_kelvin(T_celsius)))))
    IN  Underflow(FMul(FMul(area, F(1, -8)), ex))

\* defaults of drain_current_model and breakdown_voltage_model
Vth_default == F(2, 0)

Cox_default == F(15, -7)

thickness_default == F(2, -6)

area_default == F(1, -8)

\* the subthreshold floor 1e-12 A
Id_floor == F(1, -12)

beta_gain(mu_eff, W, L, Cox) ==
    FMul(FMul(FMul(mu_eff, Cox), FDiv(W, L)), F(1, -4))

\* Id_linear without the quadratic term
Id_linear_noquad(beta, Vgs, Vds, Vth) ==
    FMul(beta, FMul(FSub(Vgs, Vth), Vds))

Id_linear(beta, Vgs, Vds, Vth) ==
    FMul(beta, FSub(FMul(FSub(Vgs, Vth), Vds), FMul(F(5, -1), FMul(Vds, Vds))))

\* Id_sat with the channel-length-modulation coefficient 0.2
Id_sat_clm(beta, Vgs, Vds, Vth) ==
    FMul(FMul(FMul(F(5, -1), beta), FPowInt(FSub(Vgs, Vth), 2)),
         FAdd(F(1, 0), FMul(F(2, -1), Vds)))

Id_sat(beta, Vgs, Vds, Vth) ==
    FMul(FMul(FMul(F(5, -1), beta), FPowInt(FSub(Vgs, Vth), 2)),
         FAdd(F(1, 0), FMul(F(2, -2), Vds)))

\* thermal_factor referred to 0 degrees C
thermal_factor_ref0(T_celsius) ==
    FExp(FDiv(FNeg(T_celsius), F(150, 0)))

thermal_factor(T_celsius) ==
    FExp(FDiv(FNeg(FSub(T_celsius, F(25, 0))), F(150, 0)))

\* Eg_eff > 0
bandgap_factor(Eg_eff) == FRoot(FDiv(Eg_eff, F(34, -1)), 2)

\* Region with the boundary Vds = Vds_sat put in the linear region
Region_le(Vgs, Vds, Vth) == IF FLe(Vds, FSub(Vgs, Vth)) THEN "linear" ELSE "saturation"

\* Region with the comparison reversed
Region_reversed(Vgs, Vds, Vth) ==
    IF FLt(FSub(Vgs, Vth), Vds) THEN "linear" ELSE "saturation"

\* np.where(Vds < Vds_sat, Id_linear, Id_sat): the branch taken
Region(Vgs, Vds, Vth) == IF FLt(Vds, FSub(Vgs, Vth)) THEN "linear" ELSE "saturation"

\* np.where(Vds < Vds_sat, Id_linear, Id_sat) * thermal_factor * bandgap_factor
Id_scaled(beta, tf, bf, Vgs, Vds, Vth) ==
    LET sel == IF Region(Vgs, Vds, Vth) = "linear"
               THEN Id_linear(beta, Vgs, Vds, Vth)
               ELSE Id_sat(beta, Vgs, Vds, Vth)
    IN  FMul(FMul(sel, tf), bf)

\* Id_unclamped without the subthreshold override
Id_unclamped_nosub(beta, tf, bf, Vgs, Vds, Vth) == Id_scaled(beta, tf, bf, Vgs, Vds, Vth)

\* np.where(Vgs < Vth, 1e-12, Id): the value np.maximum is applied to
Id_unclamped(beta, tf, bf, Vgs, Vds, Vth) ==
    IF FLt(Vgs, Vth) THEN Id_floor ELSE Id_scaled(beta, tf, bf, Vgs, Vds, Vth)

\* Id_clamp without the np.maximum
Id_clamp_none(Id) == Id

\* the clamp with a floor of zero
Id_clamp_zero(Id) == FMax(Id, F(0, 0))

\* np.maximum(Id, 1e-12)
Id_clamp(Id) == FMax(Id, Id_floor)

\* numpy broadcasting of a length-1 array against a length-n array
Bcast(A, i) == IF Len(A) = 1 THEN A[1] ELSE A[i]

BcastLen(A, B) == IF Len(A) >= Len(B) THEN Len(A) ELSE Len(B)

\* the array Id of drain_current_model before the final np.maximum
drain_current_unclamped(mu_eff, Vgs, Vds, Eg_eff, T_celsius, Vth, W, L, Cox) ==
    LET beta == beta_gain(mu_eff, W, L, Cox)
        tf   == thermal_factor(T_celsius)
        bf   == bandgap_factor(Eg_eff)
    IN  [i \in 1..BcastLen(Vgs, Vds) |->
            Id_unclamped(beta, tf, bf, Bcast(Vgs, i), Bcast(Vds, i), Vth)]

\* Vgs and Vds are arrays (a scalar is an array of one element); Eg_eff > 0
drain_current_model(mu_eff, Vgs, Vds, Eg_eff, T_celsius, Vth, W, L, Cox) ==
    LET Id == drain_current_unclamped(mu_eff, Vgs, Vds, Eg_eff, T_celsius, Vth, W, L, Cox)
    IN  [i \in 1..Len(Id) |-> Id_clamp(Id[i])]

\* power_dissipation multiplying by the last sweep voltage
power_dissipation_last(Id, Vds) ==
    [i \in 1..BcastLen(Id, Vds) |-> FMul(Bcast(Id, i), Vds[Len(Vds)])]

\* Power_diss = Id_current * Vds_range
power_dissipation(Id, Vds) == [i \in 1..BcastLen(Id, Vds) |-> FMul(Bcast(Id, i), Bcast(Vds, i))]

\* np.linspace(start 0, stop, n), n >= 2
linspace0(stop, n) ==
    [i \in 1..n |-> IF i = n THEN stop
                    ELSE FMul(F(i - 1, 0), FDiv(stop, F(n - 1, 0)))]

----------------------------------------------------------------------------
(* Physics models of the material-layer revision of the Simulation page    *)
(* (3_Simulation_Interface.py, lines 722-809)                              *)

material_properties ==
    [GaN   |-> [Bandgap |-> F(34, -1),  Mobility |-> F(2000, 0),
                Breakdown_Field |-> F(33, -1), Thermal_Conductivity |-> F(13, -1)],
     AlGaN |-> [Bandgap |-> F(40, -1),  Mobility |-> F(1500, 0),
                Breakdown_Field |-> F(35, -1), Thermal_Conductivity |-> F(11, -1)],
     SiC   |-> [Bandgap |-> F(326, -2), Mobility |-> F(900, 0),
                Breakdown_Field |-> F(35, -1), Thermal_Conductivity |-> F(49, -1)],
     GaAs  |-> [Bandgap |-> F(142, -2), Mobility |-> F(8500, 0),
                Breakdown_Field |-> F(4, -1),  Thermal_Conductivity |-> F(55, -2)],
     Si    |-> [Bandgap |-> F(112, -2), Mobility |-> F(1400, 0),
                Breakdown_Field |-> F(3, -1),  Thermal_Conductivity |-> F(15, -1)]]

\* list(material_properties.keys()): the keys in insertion order
material_keys == <<"GaN", "AlGaN", "SiC", "GaAs", "Si">>

NoProps ==
    [Bandgap |-> F(0, 0), Mobility |-> F(0, 0),
     Breakdown_Field |-> F(0, 0), Thermal_Conductivity |-> F(0, 0)]

\* material_properties[name]
lookup(name) ==
    IF name \in DOMAIN material_properties
    THEN [kind |-> "ok", props |-> material_properties[name]]
    ELSE [kind |-> "KeyError", props |-> NoProps]

\* mobility_exponent with the SiC branch lost
mobility_exponent_nosic(material) ==
    IF material \in {"GaN", "AlGaN"} THEN <<3, 2>> ELSE <<17, 10>>

\* the exponent n = p/q of (300 / T_kelvin) ** n, as <<p, q>>
mobility_exponent(material) ==
    IF material \in {"GaN", "AlGaN"} THEN <<3, 2>>
    ELSE IF material = "SiC" THEN <<2, 1>>
    ELSE <<17, 10>>

mobility_temp_dep_material(mu_0, T_celsius, material, nk) ==
    LET n == mobility_exponent(material)
    IN  PyScale(mu_0, PyPow(PyDiv(F(300, 0), T_kelvin(T_celsius), nk), n[1], n[2], nk))

\* <<alpha, beta>> of the Varshni equation
varshni_constants(material) ==
    IF material \in {"GaN", "AlGaN"} THEN <<F(909, -6), F(830, 0)>>
    ELSE IF material = "SiC" THEN <<F(3, -4), F(700, 0)>>
    ELSE <<F(5, -4), F(300, 0)>>

bandgap_temp_dep_material(Eg_0, T_celsius, material, nk) ==
    LET c == varshni_constants(material)
    IN  Varshni(Eg_0, T_celsius, c[1], c[2], nk)

----------------------------------------------------------------------------
(* Physics models of the Graphs page (4_Graphs_and_Trends.py)              *)

breakdown_voltage_model_graphs(Eg, nk) ==
    LET pw == PyPow(Val(FDiv(Eg, F(34, -1))), 5, 2, nk)
    IN  IF pw.kind = "float" THEN Val(FMul(F(350, 0), pw.v)) ELSE pw

Id_unclamped_graphs(beta, Vgs, Vds, Vth) ==
    IF FLt(Vgs, Vth) THEN Id_floor
    ELSE IF FLt(Vds, FSub(Vgs, Vth)) THEN Id_linear(beta, Vgs, Vds, Vth)
    ELSE Id_sat(beta, Vgs, Vds, Vth)

drain_current_model_graphs(mu_eff, Vgs, Vds, Vth, W, L, Cox) ==
    LET beta == beta_gain(mu_eff, W, L, Cox)
    IN  [i \in 1..BcastLen(Vgs, Vds) |->
            FMax(Id_unclamped_graphs(beta, Bcast(Vgs, i), Bcast(Vds, i), Vth), Id_floor)]

----------------------------------------------------------------------------
(* State.  The Simulation page is a script that Streamlit runs from top to *)
(* bottom at start and again after every slider change; its state is the   *)
(* slider values and everything the script derives from them.  fn, arg and *)
(* res record one call of a model function: its name, arguments and result.*)

VARIABLES
    Eg_base, mu_base, Temp, Vgs, Vds_max, channel_length, channel_width,
    mu_eff, Eg_eff, BV_pred, I_leak, Vsat, Vds_range, Id_current, Power_diss,
    fn, arg, res

sliders == <<Eg_base, mu_base, Temp, Vgs, Vds_max, channel_length, channel_width>>

derived == <<mu_eff, Eg_eff, BV_pred, I_leak, Vsat, Vds_range, Id_current, Power_diss>>

\* what the Simulation page shows beside the derived values: the breakdown
\* and leakage statuses, the operating-point metrics, the voltage headroom
\* and the closing message
VARIABLES
    bv_status, pct_of_limit, leak_status, max_current, max_power,
    on_resistance, fom, headroom, success

shown ==
    <<bv_status, pct_of_limit, leak_status, max_current, max_power,
      on_resistance, fom, headroom, success>>

page == <<sliders, derived, shown>>

call == <<fn, arg, res>>

----------------------------------------------------------------------------
(* State of the material pages.  The material-layer revision of the        *)
(* Simulation page (3_Simulation_Interface.py, lines 722-1052) keeps the    *)
(* dict material_properties, a material selectbox, the operating sliders,  *)
(* the derived values and the comparison table; the Material Properties    *)
(* page (2_Material_Properties.py) keeps the dict material_data, a property*)
(* selectbox, a chart radio and the normalised copy of the radar chart.    *)
(* A dict is its keys in insertion order together with its entries.        *)

VARIABLES
    catalog, selected_material, Temp_m, Vgs_m, Vds_max_m, Eg_base_m, mu_base_m,
    mu_eff_m, Eg_eff_m, BV_pred_m, Vds_range_m, Id_current_m, Power_diss_m,
    comparison_data,
    material_data, selected_property, chart_type, normalized_df

simulation_m ==
    <<catalog, selected_material, Temp_m, Vgs_m, Vds_max_m, Eg_base_m, mu_base_m,
      mu_eff_m, Eg_eff_m, BV_pred_m, Vds_range_m, Id_current_m, Power_diss_m,
      comparison_data>>

properties_page == <<material_data, selected_property, chart_type, normalized_df>>

materials == <<simulation_m, properties_page>>

\* State of two evaluations of the Simulation script running at once (two
\* sessions, each in its own script thread): the position of each in lines
\* 193-202, its slider values, and the frames that hold the variables the
\* script and the model functions assign.
VARIABLES ev_pc, ev_in, ev_frame

evals == <<ev_pc, ev_in, ev_frame>>

\* State of the Graphs page (4_Graphs_and_Trends.py): its three sliders and
\* the series, surface, sample curve and summary metrics every run derives.
VARIABLES
    mu_base_g, Eg_base_g, Vgs_sim,
    mu_T, Eg_T, BV_Eg_T, ID_grid, Id_sample, max_mu, min_Eg, max_BV, report

graphs_sliders == <<mu_base_g, Eg_base_g, Vgs_sim>>

graphs_derived ==
    <<mu_T, Eg_T, BV_Eg_T, ID_grid, Id_sample, max_mu, min_Eg, max_BV, report>>

graphs == <<graphs_sliders, graphs_derived>>

\* State of the report writer of the Graphs page (lines 250-300): one call
\* of SafePDF.safe_text with its argument and result, and the lines the last
\* create_safe_pdf wrote.  A text is a sequence of characters; a character
\* outside ASCII is named by its code point, and a run of ASCII characters
\* that no replacement touches stands as one element.
VARIABLES pdf_fn, text_in, text_out, pdf_lines

reporting == <<pdf_fn, text_in, text_out, pdf_lines>>

\* Navigation state of the multipage application: the page file on screen,
\* the page files shown so far, the button pressed last ("none" at start,
\* "sidebar" for the page list Streamlit puts in the sidebar) and whether
\* the last st.switch_page raised StreamlitAPIException.
VARIABLES current_page, visited, last_button, nav_error

navigation == <<current_page, visited, last_button, nav_error>>

others == <<materials, evals, graphs, reporting, navigation>>

vars == <<page, call, others>>

\* the dict literal of lines 723-764
material_properties_dict == [keys |-> material_keys, props |-> material_properties]

\* the rows of material_data, lines 54-58
property_names ==
    <<"Bandgap (eV)", "Electron Mobility", "Breakdown Field",
      "Thermal Conductivity", "Saturation Velocity", "Relative Permittivity",
      "Melting Point", "Density">>

\* the dict literal of lines 53-63: the "Property" column and one column of
\* eight values per material
material_data_dict ==
    [Property |-> property_names,
     keys |-> <<"GaN", "SiC", "GaAs", "Si">>,
     cols |->
        [GaN  |-> <<F(34, -1), F(2000, 0), F(33, -1), F(13, -1), F(25, -1),
                    F(90, -1), F(2500, 0), F(615, -2)>>,
         SiC  |-> <<F(326, -2), F(900, 0), F(35, -1), F(49, -1), F(20, -1),
                    F(97, -1), F(2830, 0), F(321, -2)>>,
         GaAs |-> <<F(142, -2), F(8500, 0), F(4, -1), F(55, -2), F(20, -1),
                    F(129, -1), F(1238, 0), F(532, -2)>>,
         Si   |-> <<F(112, -2), F(1400, 0), F(3, -1), F(15, -1), F(10, -1),
                    F(118, -1), F(1414, 0), F(233, -2)>>]]

chart_types == <<"Bar Chart", "Radar Chart", "Comparison Matrix">>

RECURSIVE ColMax(_, _, _, _)
\* normalized_df[col].max(): the largest value of row r over the first n columns
ColMax(d, r, n, acc) ==
    IF n = 0 THEN acc
    ELSE ColMax(d, r, n - 1, FMax(acc, d.cols[d.keys[n]][r]))

\* lines 136-142: the transposed copy of df with every property divided by
\* its largest value over the materials; df itself is not written
normalize(d) ==
    [k \in DOMAIN d.cols |->
        [r \in 1..Len(d.Property) |->
            LET max_val == ColMax(d, r, Len(d.keys) - 1, d.cols[d.keys[Len(d.keys)]][r])
            IN  IF max_val.m > 0 THEN FDiv(d.cols[k][r], max_val) ELSE d.cols[k][r]]]

\* the comparison rows built from the last key of the dict to the first
compare_reversed(cat, T) ==
    [i \in 1..Len(cat.keys) |->
        LET material    == cat.keys[Len(cat.keys) + 1 - i]
            props       == cat.props[material]
            mu_eff_comp == mobility_temp_dep_material(props.Mobility, T, material, "py")
            Eg_eff_comp == bandgap_temp_dep_material(props.Bandgap, T, material, "py")
            BV_comp     == breakdown_voltage_model(Eg_eff_comp.v, thickness_default, "py")
        IN  [Material |-> material,
             Bandgap |-> props.Bandgap,
             Mobility |-> props.Mobility,
             Effective_Mobility |-> mu_eff_comp,
             Effective_Bandgap |-> Eg_eff_comp,
             Breakdown_Voltage |-> BV_comp]]

\* lines 1036-1052: one row per entry of the dict, in the order of its keys
compare(cat, T) ==
    [i \in 1..Len(cat.keys) |->
        LET material    == cat.keys[i]
            props       == cat.props[material]
            mu_eff_comp == mobility_temp_dep_material(props.Mobility, T, material, "py")
            Eg_eff_comp == bandgap_temp_dep_material(props.Bandgap, T, material, "py")
            BV_comp     == breakdown_voltage_model(Eg_eff_comp.v, thickness_default, "py")
        IN  [Material |-> material,
             Bandgap |-> props.Bandgap,
             Mobility |-> props.Mobility,
             Effective_Mobility |-> mu_eff_comp,
             Effective_Bandgap |-> Eg_eff_comp,
             Breakdown_Voltage |-> BV_comp]]

\* number of points of the Vds sweep (np.linspace(0, Vds_max, 200) in the code)
SweepPoints == 5

TempValuesM == {F(50, 0), F(300, 0)}

\* one run of the material-layer Simulation script, lines 723-1052; the
\* bandgap and mobility sliders carry the material's name in their label, so
\* they are the widgets left by the last material selection; the gate and
\* drain voltage sliders stay where Init puts them
RerunM ==
    /\ catalog' = material_properties_dict
    /\ mu_eff_m' = mobility_temp_dep_material(mu_base_m', Temp_m', selected_material', "py")
    /\ Eg_eff_m' = bandgap_temp_dep_material(Eg_base_m', Temp_m', selected_material', "py")
    /\ BV_pred_m' = breakdown_voltage_model(Eg_eff_m'.v, thickness_default, "py")
    /\ Vds_range_m' = linspace0(Vds_max_m', SweepPoints)
    /\ Id_current_m' = drain_current_model(mu_eff_m'.v, <<Vgs_m'>>, Vds_range_m',
                                           Eg_eff_m'.v, Temp_m', Vth_default,
                                           F(100, -6), F(1, -6), Cox_default)
    /\ Power_diss_m' = power_dissipation(Id_current_m', Vds_range_m')
    /\ comparison_data' = compare(catalog', Temp_m')

\* one run of the Material Properties script, lines 53-200
RerunProperties ==
    /\ material_data' = material_data_dict
    /\ normalized_df' = IF chart_type' = "Radar Chart"
                        THEN normalize(material_data') ELSE << >>

\* slider positions explored, each a subset of the slider's min..max by step
EgBaseValues == {F(30, -1), F(34, -1)}

MuBaseValues == {F(500, 0), F(1500, 0)}

TempValues == {F(50, 0), F(300, 0)}

VgsValues == {F(0, 0), F(2, 0), F(5, 0)}

VdsMaxValues == {F(10, 0), F(100, 0), F(300, 0), F(500, 0)}

ChannelLengthValues == {F(1, -1), F(1, 0)}

\* a width slider whose range starts at 0
ChannelWidthValues_zero == {F(0, 0), F(100, 0)}

ChannelWidthValues == {F(100, 0), F(200, 0)}

\* line 264
bv_status_of(Vds, BV) ==
    IF FLt(Vds, FMul(BV, F(8, -1))) THEN "Safe"
    ELSE IF FLt(Vds, BV) THEN "Warning"
    ELSE "Critical"

\* line 269: Vds_max/BV_pred*100, a division of Python numbers
pct_of_limit_of(Vds, BV) == PyScale(F(100, 0), PyDiv(Vds, BV, "py"))

\* line 274
leak_status_of(I) ==
    IF FLt(I, F(1, -6)) THEN "Low"
    ELSE IF FLt(I, F(1, -3)) THEN "Moderate"
    ELSE "High"

RECURSIVE ArrMax(_, _)
\* np.max over the first n elements of an array
ArrMax(A, n) == IF n = 1 THEN A[1] ELSE FMax(ArrMax(A, n - 1), A[n])

\* the on-resistance taken at the first sweep point, where Vds_range is 0
on_resistance_first(Vds, Id) ==
    IF Id[1].m > 0 THEN FDiv(Vds[1], Id[1]) ELSE F(0, 0)

\* line 381: Vds_range[1]/Id_current[1] if Id_current[1] > 0 else 0, the
\* index 1 of the code being the second element
on_resistance_of(Vds, Id) ==
    IF Id[2].m > 0 THEN FDiv(Vds[2], Id[2]) ELSE F(0, 0)

\* line 512: BV_pred**2 / (Vds_range[1]/Id_current[1] if Id_current[1] > 0 else 1e9)
fom_of(BV, Vds, Id) ==
    PyDiv(FMul(BV, BV),
          IF Id[2].m > 0 THEN FDiv(Vds[2], Id[2]) ELSE F(1, 9), "np")

\* line 603: (BV_pred - Vds_max)/BV_pred*100
headroom_of(Vds, BV) == PyScale(F(100, 0), PyDiv(FSub(BV, Vds), BV, "py"))

\* lines 264-280, 376-381, 512, 603 and 610 of the script, after the derived
\* values; the message of line 610 is written on every run
RerunShown ==
    /\ bv_status' = bv_status_of(Vds_max', BV_pred'.v)
    /\ pct_of_limit' = pct_of_limit_of(Vds_max', BV_pred'.v)
    /\ leak_status' = leak_status_of(I_leak')
    /\ max_current' = FMul(ArrMax(Id_current', Len(Id_current')), F(1000, 0))
    /\ max_power' = FMul(ArrMax(Power_diss', Len(Power_diss')), F(1000, 0))
    /\ on_resistance' = on_resistance_of(Vds_range', Id_current')
    /\ fom' = fom_of(BV_pred'.v, Vds_range', Id_current')
    /\ headroom' = headroom_of(Vds_max', BV_pred'.v)
    /\ success' = TRUE

\* the script with the breakdown voltage kept from the run before (a value
\* cached under a key that leaves the bandgap out)
Rerun_stale ==
    /\ mu_eff' = mobility_temp_dep(mu_base', Temp', "py")
    /\ Eg_eff' = bandgap_temp_dep(Eg_base', Temp', "py")
    /\ BV_pred' = breakdown_voltage_model(Eg_eff.v, thickness_default, "py")
    /\ I_leak' = leakage_current(Eg_eff'.v, Temp', area_default)
    /\ Vsat' = saturation_velocity_temp(Temp')
    /\ Vds_range' = linspace0(Vds_max', SweepPoints)
    /\ Id_current' = drain_current_model(mu_eff'.v, <<Vgs'>>, Vds_range', Eg_eff'.v, Temp',
                                         Vth_default,
                                         FMul(channel_width', F(1, -6)),
                                         FMul(channel_length', F(1, -6)),
                                         Cox_default)
    /\ Power_diss' = power_dissipation(Id_current', Vds_range')
    /\ RerunShown

\* lines 193-205 of the script, run on the new slider values
Rerun ==
    /\ mu_eff' = mobility_temp_dep(mu_base', Temp', "py")
    /\ Eg_eff' = bandgap_temp_dep(Eg_base', Temp', "py")
    /\ BV_pred' = breakdown_voltage_model(Eg_eff'.v, thickness_default, "py")
    /\ I_leak' = leakage_current(Eg_eff'.v, Temp', area_default)
    /\ Vsat' = saturation_velocity_temp(Temp')
    /\ Vds_range' = linspace0(Vds_max', SweepPoints)
    /\ Id_current' = drain_current_model(mu_eff'.v, <<Vgs'>>, Vds_range', Eg_eff'.v, Temp',
                                         Vth_default,
                                         FMul(channel_width', F(1, -6)),
                                         FMul(channel_length', F(1, -6)),
                                         Cox_default)
    /\ Power_diss' = power_dissipation(Id_current', Vds_range')
    /\ RerunShown

\* number of temperatures of T_range (np.linspace(25, 300, 80) in the code)
TrendPoints == 4

\* points per axis of the surface (np.linspace(0, 10, 40), (0, 200, 40))
GridPoints == 3

\* points of the sample curve (np.linspace(0, 100, 201) in the code)
SamplePoints == 3

\* np.linspace(start, stop, n), n >= 2
linspace(start, stop, n) ==
    LET step == FDiv(FSub(stop, start), F(n - 1, 0))
    IN  [i \in 1..n |-> IF i = n THEN stop
                        ELSE FAdd(start, FMul(F(i - 1, 0), step))]

T_range == linspace(F(25, 0), F(300, 0), TrendPoints)

VGS_range == linspace(F(0, 0), F(10, 0), GridPoints)

VDS_range == linspace(F(0, 0), F(200, 0), GridPoints)

\* np.meshgrid(VGS_range, VDS_range), row after row: row i holds VDS_range[i]
\* against every gate voltage
VGS_grid ==
    [k \in 1..(GridPoints * GridPoints) |-> VGS_range[((k - 1) % GridPoints) + 1]]

VDS_grid ==
    [k \in 1..(GridPoints * GridPoints) |-> VDS_range[((k - 1) \div GridPoints) + 1]]

Vds_sample == linspace(F(0, 0), F(100, 0), SamplePoints)

RECURSIVE SeqMax(_, _)
\* np.max over the first n numbers of a list
SeqMax(q, n) == IF n = 1 THEN q[1].v ELSE FMax(SeqMax(q, n - 1), q[n].v)

RECURSIVE SeqMin(_, _)
\* np.min over the first n numbers of a list
SeqMin(q, n) ==
    IF n = 1 THEN q[1].v
    ELSE LET r == SeqMin(q, n - 1) IN IF FLt(q[n].v, r) THEN q[n].v ELSE r

\* slider positions explored on the Graphs page
MuBaseValuesG == {F(500, 0), F(1000, 0), F(1500, 0), F(2000, 0), F(3000, 0)}

EgBaseValuesG == {F(30, -1), F(32, -1), F(34, -1), F(37, -1), F(40, -1)}

VgsSimValues == {F(0, 0), F(2, 0), F(35, -1), F(5, 0), F(10, 0)}

\* the surface ID_grid, line 106: the mobility passed is the base mobility
ID_grid_of(mu) ==
    drain_current_model_graphs(mu, VGS_grid, VDS_grid, Vth_default,
                               F(100, -6), F(1, -6), Cox_default)

\* format(x, ".<d>f") read back as a number: x rounded to d decimals
FRound(x, d) ==
    IF x.e >= -d THEN x
    ELSE IF -d - x.e > 6 THEN F(0, 0)
    ELSE LET p == Pow10(-d - x.e)
         IN  Norm(Sgn(x.m) * ((Abs(x.m) + p \div 2) \div p), -d)

\* create_safe_pdf with the minimum bandgap line fed the first element of the
\* series
create_safe_pdf_first(mu_max, eg_min, bv_max, Vgs_val, mu_b, Eg_b) ==
    [mu_base |-> mu_b,
     Eg_base |-> FRound(Eg_b, 3),
     Vgs_val |-> FRound(Vgs_val, 2),
     mu_max  |-> FRound(mu_max, 2),
     eg_min  |-> FRound(Eg_b, 4),
     bv_max  |-> FRound(bv_max, 2)]

\* lines 265-300: the numbers the report lines carry, each in its format
create_safe_pdf(mu_max, eg_min, bv_max, Vgs_val, mu_b, Eg_b) ==
    [mu_base |-> mu_b,
     Eg_base |-> FRound(Eg_b, 3),
     Vgs_val |-> FRound(Vgs_val, 2),
     mu_max  |-> FRound(mu_max, 2),
     eg_min  |-> FRound(eg_min, 4),
     bv_max  |-> FRound(bv_max, 2)]

\* lines 97-106, 214-216, 240-242 and 304 of the script, run on the new
\* slider values; the elements of T_range are numpy floats
RerunGraphs ==
    /\ mu_T' = [i \in 1..TrendPoints |-> mobility_temp_dep(mu_base_g', T_range[i], "np")]
    /\ Eg_T' = [i \in 1..TrendPoints |-> bandgap_temp_dep(Eg_base_g', T_range[i], "np")]
    /\ BV_Eg_T' = [i \in 1..TrendPoints |->
                      breakdown_voltage_model_graphs(Eg_T'[i].v, "np")]
    /\ ID_grid' = ID_grid_of(mu_base_g')
    /\ Id_sample' = drain_current_model_graphs(mu_base_g', <<Vgs_sim'>>, Vds_sample,
                                               Vth_default, F(100, -6), F(1, -6),
                                               Cox_default)
    /\ max_mu' = SeqMax(mu_T', TrendPoints)
    /\ min_Eg' = SeqMin(Eg_T', TrendPoints)
    /\ max_BV' = SeqMax(BV_Eg_T', TrendPoints)
    /\ report' = create_safe_pdf(max_mu', min_Eg', max_BV', Vgs_sim',
                                 mu_base_g', Eg_base_g')

\* the dict replacements of lines 254-260, in insertion order: bullet, en
\* dash, em dash, double and single curly quotes, degree, multiplication and
\* division signs, Greek mu, superscript two, subscript digits
replacements ==
    << <<"U+2022", <<"-">> >>, <<"U+2013", <<"-">> >>, <<"U+2014", <<"-">> >>,
       <<"U+201C", <<"\"">> >>, <<"U+201D", <<"\"">> >>,
       <<"U+2018", <<"'">> >>, <<"U+2019", <<"'">> >>,
       <<"U+00B0", <<" ", "d", "e", "g">> >>,
       <<"U+00D7", <<"x">> >>, <<"U+00F7", <<"/">> >>,
       <<"U+03BC", <<"u">> >>, <<"U+00B2", <<"2">> >>,
       <<"U+2080", <<"0">> >>, <<"U+2081", <<"1">> >>, <<"U+2082", <<"2">> >>,
       <<"U+2083", <<"3">> >>, <<"U+2084", <<"4">> >>, <<"U+2085", <<"5">> >>,
       <<"U+2086", <<"6">> >>, <<"U+2087", <<"7">> >>, <<"U+2088", <<"8">> >>,
       <<"U+2089", <<"9">> >> >>

RECURSIVE str_replace(_, _, _)
\* text.replace(old, new) for a single character old
str_replace(text, old, new) ==
    IF text = << >> THEN << >>
    ELSE (IF Head(text) = old THEN new ELSE <<Head(text)>>)
             \o str_replace(Tail(text), old, new)

RECURSIVE apply_replacements(_, _, _)
\* the loop of lines 261-262 from entry k on
apply_replacements(text, reps, k) ==
    IF k > Len(reps) THEN text
    ELSE apply_replacements(str_replace(text, reps[k][1], reps[k][2]), reps, k + 1)

\* safe_text with the loop body never run
safe_text_identity(text) == text

\* SafePDF.safe_text, lines 251-263
safe_text(text) == apply_replacements(text, replacements, 1)

\* the texts create_safe_pdf passes to pdf.cell and pdf.multi_cell, lines
\* 272-298, with the formatted numbers standing as ASCII runs
report_texts ==
    << <<"GaN MOSFET Simulation Summary">>,
       <<"Base mobility ", "U+03BC", "U+2080", ": {mu_base} cm", "U+00B2",
         "/V", "U+00B7", "s">>,
       <<"Base bandgap Eg", "U+2080", ": {Eg_base:.3f} eV">>,
       <<"Selected Vgs for quick I-V: {Vgs_val:.2f} V">>,
       <<"Computed Metrics:">>,
       <<"- Maximum mobility (over T): {mu_max:.2f} cm", "U+00B2", "/V",
         "U+00B7", "s">>,
       <<"- Minimum bandgap (over T): {eg_min:.4f} eV">>,
       <<"- Maximum estimated breakdown voltage: {bv_max:.2f} V">>,
       <<"Notes: This report contains a brief summary of the current simulation run. ...">> >>

\* longest text passed to safe_text in a call
MaxTextLen == 2

\* characters of the texts passed to safe_text: every key of replacements,
\* the micro sign and the middle dot (no keys), and two ASCII letters
TextAlphabet ==
    {replacements[k][1] : k \in 1..Len(replacements)} \cup {"U+00B5", "U+00B7", "a", "x"}

TextInputs == UNION {[1..n -> TextAlphabet] : n \in 0..MaxTextLen}

Evaluations == {1, 2}

NoInput == [mu_base |-> F(0, 0), Eg_base |-> F(0, 0), Temp |-> F(0, 0)]

\* slider values an evaluation may start from
EvalInputs ==
    { [mu_base |-> F(1500, 0), Eg_base |-> F(34, -1), Temp |-> F(50, 0)],
      [mu_base |-> F(1500, 0), Eg_base |-> F(34, -1), Temp |-> F(300, 0)],
      [mu_base |-> F(500, 0),  Eg_base |-> F(30, -1), Temp |-> F(50, 0)] }

\* the variables one evaluation assigns: T_kelvin inside mobility_temp_dep
\* and the script's mu_eff, Eg_eff, BV_pred, I_leak, Id_current
NoFrame ==
    [T_kelvin |-> F(0, 0), mu_eff |-> F(0, 0), Eg_eff |-> F(0, 0),
     BV_pred |-> F(0, 0), I_leak |-> F(0, 0), Id_current |-> << >>]

\* both evaluations assigning into one frame, as module-level globals of a
\* shared interpreter namespace would be
FrameOf_shared(p) == 1

\* the frame evaluation p assigns into: a call's locals are its own, and each
\* session's script runs in a namespace of its own
FrameOf(p) == p

NoArg ==
    [mu |-> F(0, 0), Vgs |-> <<>>, Vds |-> <<>>, Eg |-> F(0, 0), T |-> F(0, 0),
     Vth |-> Vth_default, W |-> F(0, 0), L |-> F(0, 0), Cox |-> Cox_default,
     thickness |-> thickness_default, material |-> "", nk |-> "py"]

NoRes == [kind |-> "none", v |-> F(0, 0), arr |-> <<>>, pre |-> <<>>, props |-> NoProps]

\* the main script and the files of the pages directory
main_script == "Home.py"

page_files ==
    {main_script,
     "pages/1_Theory_and_Working.py",
     "pages/2_Material_Properties.py",
     "pages/3_Simulation_Interface.py",
     "pages/4_Graphs_and_Trends.py",
     "pages/5_Conclusion_and_References.py"}

\* the st.button / st.switch_page pairs of the application: the page a
\* button is on, its label and the path handed to st.switch_page
nav_buttons ==
    {[on |-> main_script, label |-> "Launch Simulation Dashboard",
      target |-> "pages/1_Theory_and_Working.py"],
     [on |-> "pages/1_Theory_and_Working.py", label |-> "Continue to Material Properties",
      target |-> "pages/2_Material_Properties.py"],
     [on |-> "pages/2_Material_Properties.py", label |-> "Proceed to Simulation Interface",
      target |-> "pages/3_Simulation_Interface.py"],
     [on |-> "pages/3_Simulation_Interface.py", label |-> "Proceed to Graphs & Trends Analysis",
      target |-> "pages/4_Graphs_and_Trends.py"],
     [on |-> "pages/4_Graphs_and_Trends.py", label |-> "Back to Simulation",
      target |-> "pages/3_Simulation_Interface.py"],
     [on |-> "pages/4_Graphs_and_Trends.py", label |-> "References",
      target |-> "pages/5_Formulas_and_References.py"]}

Init ==
    /\ Eg_base = F(34, -1)
    /\ mu_base = F(1500, 0)
    /\ Temp = F(50, 0)
    /\ Vgs = F(5, 0)
    /\ Vds_max = F(100, 0)
    /\ channel_length = F(1, 0)
    /\ channel_width = F(100, 0)
    /\ mu_eff = mobility_temp_dep(mu_base, Temp, "py")
    /\ Eg_eff = bandgap_temp_dep(Eg_base, Temp, "py")
    /\ BV_pred = breakdown_voltage_model(Eg_eff.v, thickness_default, "py")
    /\ I_leak = leakage_current(Eg_eff.v, Temp, area_default)
    /\ Vsat = saturation_velocity_temp(Temp)
    /\ Vds_range = linspace0(Vds_max, SweepPoints)
    /\ Id_current = drain_current_model(mu_eff.v, <<Vgs>>, Vds_range, Eg_eff.v, Temp,
                                        Vth_default,
                                        FMul(channel_width, F(1, -6)),
                                        FMul(channel_length, F(1, -6)),
                                        Cox_default)
    /\ Power_diss = power_dissipation(Id_current, Vds_range)
    /\ bv_status = bv_status_of(Vds_max, BV_pred.v)
    /\ pct_of_limit = pct_of_limit_of(Vds_max, BV_pred.v)
    /\ leak_status = leak_status_of(I_leak)
    /\ max_current = FMul(ArrMax(Id_current, Len(Id_current)), F(1000, 0))
    /\ max_power = FMul(ArrMax(Power_diss, Len(Power_diss)), F(1000, 0))
    /\ on_resistance = on_resistance_of(Vds_range, Id_current)
    /\ fom = fom_of(BV_pred.v, Vds_range, Id_current)
    /\ headroom = headroom_of(Vds_max, BV_pred.v)
    /\ success = TRUE
    /\ fn = "none"
    /\ arg = NoArg
    /\ res = NoRes
    /\ catalog = material_properties_dict
    /\ selected_material = catalog.keys[1]
    /\ Temp_m = F(50, 0)
    /\ Vgs_m = F(5, 0)
    /\ Vds_max_m = F(100, 0)
    /\ Eg_base_m = catalog.props[selected_material].Bandgap
    /\ mu_base_m = catalog.props[selected_material].Mobility
    /\ mu_eff_m = mobility_temp_dep_material(mu_base_m, Temp_m, selected_material, "py")
    /\ Eg_eff_m = bandgap_temp_dep_material(Eg_base_m, Temp_m, selected_material, "py")
    /\ BV_pred_m = breakdown_voltage_model(Eg_eff_m.v, thickness_default, "py")
    /\ Vds_range_m = linspace0(Vds_max_m, SweepPoints)
    /\ Id_current_m = drain_current_model(mu_eff_m.v, <<Vgs_m>>, Vds_range_m,
                                          Eg_eff_m.v, Temp_m, Vth_default,
                                          F(100, -6), F(1, -6), Cox_default)
    /\ Power_diss_m = power_dissipation(Id_current_m, Vds_range_m)
    /\ comparison_data = compare(catalog, Temp_m)
    /\ material_data = material_data_dict
    /\ selected_property = material_data.Property[1]
    /\ chart_type = chart_types[1]
    /\ normalized_df = << >>
    /\ mu_base_g = F(1500, 0)
    /\ Eg_base_g = F(34, -1)
    /\ Vgs_sim = F(5, 0)
    /\ mu_T = [i \in 1..TrendPoints |-> mobility_temp_dep(mu_base_g, T_range[i], "np")]
    /\ Eg_T = [i \in 1..TrendPoints |-> bandgap_temp_dep(Eg_base_g, T_range[i], "np")]
    /\ BV_Eg_T = [i \in 1..TrendPoints |->
                     breakdown_voltage_model_graphs(Eg_T[i].v, "np")]
    /\ ID_grid = ID_grid_of(mu_base_g)
    /\ Id_sample = drain_current_model_graphs(mu_base_g, <<Vgs_sim>>, Vds_sample,
                                              Vth_default, F(100, -6), F(1, -6),
                                              Cox_default)
    /\ max_mu = SeqMax(mu_T, TrendPoints)
    /\ min_Eg = SeqMin(Eg_T, TrendPoints)
    /\ max_BV = SeqMax(BV_Eg_T, TrendPoints)
    /\ report = create_safe_pdf(max_mu, min_Eg, max_BV, Vgs_sim, mu_base_g, Eg_base_g)
    /\ pdf_fn = "none"
    /\ text_in = << >>
    /\ text_out = << >>
    /\ pdf_lines = << >>
    /\ ev_pc = [p \in Evaluations |-> "idle"]
    /\ ev_in = [p \in Evaluations |-> NoInput]
    /\ ev_frame = [p \in Evaluations |-> NoFrame]
    /\ current_page = main_script
    /\ visited = {main_script}
    /\ last_button = "none"
    /\ nav_error = FALSE

SetEgBase ==
    \E x \in EgBaseValues \ {Eg_base} :
        /\ Eg_base' = x
        /\ UNCHANGED <<mu_base, Temp, Vgs, Vds_max, channel_length, channel_width>>
        /\ Rerun
        /\ UNCHANGED <<call, others>>

SetMuBase ==
    \E x \in MuBaseValues \ {mu_base} :
        /\ mu_base' = x
        /\ UNCHANGED <<Eg_base, Temp, Vgs, Vds_max, channel_length, channel_width>>
        /\ Rerun
        /\ UNCHANGED <<call, others>>

SetTemp ==
    \E x \in TempValues \ {Temp} :
        /\ Temp' = x
        /\ UNCHANGED <<Eg_base, mu_base, Vgs, Vds_max, channel_length, channel_width>>
        /\ Rerun
        /\ UNCHANGED <<call, others>>

SetVgs ==
    \E x \in VgsValues \ {Vgs} :
        /\ Vgs' = x
        /\ UNCHANGED <<Eg_base, mu_base, Temp, Vds_max, channel_length, channel_width>>
        /\ Rerun
        /\ UNCHANGED <<call, others>>

SetVdsMax ==
    \E x \in VdsMaxValues \ {Vds_max} :
        /\ Vds_max' = x
        /\ UNCHANGED <<Eg_base, mu_base, Temp, Vgs, channel_length, channel_width>>
        /\ Rerun
        /\ UNCHANGED <<call, others>>

SetChannelLength ==
    \E x \in ChannelLengthValues \ {channel_length} :
        /\ channel_length' = x
        /\ UNCHANGED <<Eg_base, mu_base, Temp, Vgs, Vds_max, channel_width>>
        /\ Rerun
        /\ UNCHANGED <<call, others>>

SetChannelWidth ==
    \E x \in ChannelWidthValues \ {channel_width} :
        /\ channel_width' = x
        /\ UNCHANGED <<Eg_base, mu_base, Temp, Vgs, Vds_max, channel_length>>
        /\ Rerun
        /\ UNCHANGED <<call, others>>

----------------------------------------------------------------------------
(* Calls of the model functions, the arguments drawn from small sets that  *)
(* hold the cases of each function: below, at and above the threshold;     *)
(* linear region, region boundary and saturation; currents above and below *)
(* the floor; temperatures and bandgaps inside and outside the domain.     *)

CallMu == {F(1, -9), F(1342, 0), F(3000, 0)}

CallVgs == {F(0, 0), F(19, -1), F(2, 0), F(5, 0), F(10, 0)}

CallVth == {F(2, 0), F(5, 0)}

CallVdsArrays ==
    {<<F(0, 0)>>, <<F(1, 0)>>, <<F(3, 0)>>, <<F(5, 0)>>, <<F(100, 0)>>,
     <<F(0, 0), F(1, 0), F(3, 0), F(8, 0)>>}

CallVgsArrays == {<<F(0, 0), F(2, 0), F(5, 0), F(10, 0)>>}

\* <<Vgs, Vds>> argument pairs: scalar Vgs with any Vds, a Vgs array with a
\* scalar Vds (line 493) or with a Vds array of the same shape (a meshgrid)
CallVoltages ==
    {<<<<g>>, d>> : g \in CallVgs, d \in CallVdsArrays}
        \cup {<<g, d>> : g \in CallVgsArrays,
                         d \in {<<F(5, 0)>>, <<F(0, 0), F(1, 0), F(3, 0), F(8, 0)>>}}

CallEg == {F(34, -1), F(1, 0)}

CallT == {F(25, 0), F(300, 0)}

\* <<W, L>> in metres
CallGeometry == {<<F(100, -6), F(1, -6)>>, <<F(10, -6), F(5, -6)>>}

CallTemperatures == {F(-300, 0), F(-27315, -2), F(-50, 0), F(25, 0), F(300, 0), F(500, 0)}

CallMu0 == {F(1500, 0), F(900, 0)}

CallEg0 == {F(34, -1), F(112, -2)}

CallBandgaps == {F(-1, 0), F(0, 0), F(112, -2), F(34, -1), F(68, -1)}

CallThickness == {F(2, -6), F(4, -6)}

\* bandgaps and temperatures for leakage_current, all with Eg > 0 and
\* T_kelvin > 0: from 10 K up to 500 C
CallLeakEg == {F(112, -2), F(34, -1), F(68, -1)}

CallLeakT == {F(-26315, -2), F(-25315, -2), F(-50, 0), F(25, 0), F(300, 0), F(500, 0)}

CallMaterials == {"GaN", "AlGaN", "SiC", "GaAs", "Si", "InP"}

Call_drain_current_model ==
    \E mu \in CallMu, V \in CallVoltages, Eg \in CallEg, T \in CallT,
       Vth \in CallVth, G \in CallGeometry :
        /\ fn = "none"
        /\ fn' = "drain_current_model"
        /\ arg' = [NoArg EXCEPT !.mu = mu, !.Vgs = V[1], !.Vds = V[2], !.Eg = Eg,
                                !.T = T, !.Vth = Vth, !.W = G[1], !.L = G[2]]
        /\ res' = [NoRes EXCEPT
                     !.kind = "float",
                     !.pre = drain_current_unclamped(mu, V[1], V[2], Eg, T, Vth,
                                                     G[1], G[2], Cox_default),
                     !.arr = drain_current_model(mu, V[1], V[2], Eg, T, Vth,
                                                 G[1], G[2], Cox_default)]
        /\ UNCHANGED <<page, others>>

\* W and L with a zero or negative member, as drain_current_model accepts them
CallBadGeometry ==
    { <<F(100, -6), F(0, 0)>>, <<F(100, -6), F(-1, -6)>>,
      <<F(0, 0), F(1, -6)>>, <<F(-100, -6), F(1, -6)>> }

\* drain_current_model called with W <= 0 or L <= 0.  W and L are Python
\* floats (slider value * 1e-6), so W/L with L = 0 raises ZeroDivisionError at
\* line 141; every other W, L goes through the arithmetic and the clamp.
Call_drain_current_model_geometry ==
    \E V \in CallVoltages, G \in CallBadGeometry :
        /\ fn = "none"
        /\ fn' = "drain_current_model"
        /\ arg' = [NoArg EXCEPT !.mu = F(1342, 0), !.Vgs = V[1], !.Vds = V[2],
                                !.Eg = F(34, -1), !.T = F(25, 0),
                                !.Vth = Vth_default, !.W = G[1], !.L = G[2]]
        /\ res' = IF G[2].m = 0
                  THEN [NoRes EXCEPT !.kind = "ZeroDivisionError"]
                  ELSE [NoRes EXCEPT
                          !.kind = "float",
                          !.pre = drain_current_unclamped(F(1342, 0), V[1], V[2],
                                      F(34, -1), F(25, 0), Vth_default,
                                      G[1], G[2], Cox_default),
                          !.arr = drain_current_model(F(1342, 0), V[1], V[2],
                                      F(34, -1), F(25, 0), Vth_default,
                                      G[1], G[2], Cox_default)]
        /\ UNCHANGED <<page, others>>

Call_drain_current_model_graphs ==
    \E mu \in CallMu, V \in CallVoltages, Vth \in CallVth, G \in CallGeometry :
        /\ fn = "none"
        /\ fn' = "drain_current_model_graphs"
        /\ arg' = [NoArg EXCEPT !.mu = mu, !.Vgs = V[1], !.Vds = V[2],
                                !.Vth = Vth, !.W = G[1], !.L = G[2]]
        /\ res' = [NoRes EXCEPT
                     !.kind = "float",
                     !.arr = drain_current_model_graphs(mu, V[1], V[2], Vth,
                                                        G[1], G[2], Cox_default)]
        /\ UNCHANGED <<page, others>>

\* a returned value r of kind float, inf, nan or complex, or a raised error
ResOf(r) == [NoRes EXCEPT !.kind = r.kind, !.v = r.v]

Call_mobility_temp_dep ==
    \E mu \in CallMu0, T \in CallTemperatures, nk \in NumKinds :
        /\ fn = "none"
        /\ fn' = "mobility_temp_dep"
        /\ arg' = [NoArg EXCEPT !.mu = mu, !.T = T, !.nk = nk]
        /\ res' = ResOf(mobility_temp_dep(mu, T, nk))
        /\ UNCHANGED <<page, others>>

Call_bandgap_temp_dep ==
    \E Eg \in CallEg0, T \in CallTemperatures, nk \in NumKinds :
        /\ fn = "none"
        /\ fn' = "bandgap_temp_dep"
        /\ arg' = [NoArg EXCEPT !.Eg = Eg, !.T = T, !.nk = nk]
        /\ res' = ResOf(bandgap_temp_dep(Eg, T, nk))
        /\ UNCHANGED <<page, others>>

Call_breakdown_voltage_model ==
    \E Eg \in CallBandgaps, th \in CallThickness, nk \in NumKinds :
        /\ fn = "none"
        /\ fn' = "breakdown_voltage_model"
        /\ arg' = [NoArg EXCEPT !.Eg = Eg, !.thickness = th, !.nk = nk]
        /\ res' = ResOf(breakdown_voltage_model(Eg, th, nk))
        /\ UNCHANGED <<page, others>>

Call_breakdown_voltage_model_graphs ==
    \E Eg \in CallBandgaps, nk \in NumKinds :
        /\ fn = "none"
        /\ fn' = "breakdown_voltage_model_graphs"
        /\ arg' = [NoArg EXCEPT !.Eg = Eg, !.nk = nk]
        /\ res' = ResOf(breakdown_voltage_model_graphs(Eg, nk))
        /\ UNCHANGED <<page, others>>

Call_mobility_temp_dep_material ==
    \E mu \in CallMu0, T \in CallTemperatures, mat \in CallMaterials, nk \in NumKinds :
        /\ fn = "none"
        /\ fn' = "mobility_temp_dep_material"
        /\ arg' = [NoArg EXCEPT !.mu = mu, !.T = T, !.material = mat, !.nk = nk]
        /\ res' = ResOf(mobility_temp_dep_material(mu, T, mat, nk))
        /\ UNCHANGED <<page, others>>

Call_bandgap_temp_dep_material ==
    \E Eg \in CallEg0, T \in CallTemperatures, mat \in CallMaterials, nk \in NumKinds :
        /\ fn = "none"
        /\ fn' = "bandgap_temp_dep_material"
        /\ arg' = [NoArg EXCEPT !.Eg = Eg, !.T = T, !.material = mat, !.nk = nk]
        /\ res' = ResOf(bandgap_temp_dep_material(Eg, T, mat, nk))
        /\ UNCHANGED <<page, others>>

Call_leakage_current ==
    \E Eg \in CallLeakEg, T \in CallLeakT :
        /\ fn = "none"
        /\ fn' = "leakage_current"
        /\ arg' = [NoArg EXCEPT !.Eg = Eg, !.T = T]
        /\ res' = ResOf(Val(leakage_current(Eg, T, area_default)))
        /\ UNCHANGED <<page, others>>

Call_lookup ==
    \E mat \in CallMaterials :
        /\ fn = "none"
        /\ fn' = "lookup"
        /\ arg' = [NoArg EXCEPT !.material = mat]
        /\ res' = [NoRes EXCEPT !.kind = lookup(mat).kind, !.props = lookup(mat).props]
        /\ UNCHANGED <<page, others>>

\* the call is over: its arguments and result are dropped
Return ==
    /\ fn # "none"
    /\ fn' = "none"
    /\ arg' = NoArg
    /\ res' = NoRes
    /\ UNCHANGED <<page, others>>

NextModels ==
    \/ Call_drain_current_model
    \/ Call_drain_current_model_geometry
    \/ Call_drain_current_model_graphs
    \/ Call_mobility_temp_dep
    \/ Call_bandgap_temp_dep
    \/ Call_breakdown_voltage_model
    \/ Call_breakdown_voltage_model_graphs
    \/ Call_mobility_temp_dep_material
    \/ Call_bandgap_temp_dep_material
    \/ Call_leakage_current
    \/ Call_lookup
    \/ Return

SpecModels == Init /\ [][NextModels]_vars

Next ==
    \/ SetEgBase
    \/ SetMuBase
    \/ SetTemp
    \/ SetVgs
    \/ SetVdsMax
    \/ SetChannelLength
    \/ SetChannelWidth

Spec == Init /\ [][Next]_vars

\* the material selectbox, line 820; the new material's bandgap and mobility
\* sliders start at its catalog values, lines 841-853
SelectMaterial ==
    \E i \in 1..Len(catalog.keys) :
        /\ catalog.keys[i] # selected_material
        /\ selected_material' = catalog.keys[i]
        /\ Eg_base_m' = catalog.props[catalog.keys[i]].Bandgap
        /\ mu_base_m' = catalog.props[catalog.keys[i]].Mobility
        /\ UNCHANGED <<Temp_m, Vgs_m, Vds_max_m>>
        /\ RerunM
        /\ UNCHANGED <<page, call, properties_page, evals, graphs, reporting, navigation>>

SetTempM ==
    \E x \in TempValuesM \ {Temp_m} :
        /\ Temp_m' = x
        /\ UNCHANGED <<selected_material, Vgs_m, Vds_max_m, Eg_base_m, mu_base_m>>
        /\ RerunM
        /\ UNCHANGED <<page, call, properties_page, evals, graphs, reporting, navigation>>

\* the property selectbox, lines 81-85
SelectProperty ==
    \E i \in 1..Len(material_data.Property) :
        /\ material_data.Property[i] # selected_property
        /\ selected_property' = material_data.Property[i]
        /\ UNCHANGED chart_type
        /\ RerunProperties
        /\ UNCHANGED <<page, call, simulation_m, evals, graphs, reporting, navigation>>

\* the chart radio, lines 87-91
SelectChartType ==
    \E i \in 1..Len(chart_types) :
        /\ chart_types[i] # chart_type
        /\ chart_type' = chart_types[i]
        /\ UNCHANGED selected_property
        /\ RerunProperties
        /\ UNCHANGED <<page, call, simulation_m, evals, graphs, reporting, navigation>>

\* a session starts a script run with its slider values
EvalStart(p) ==
    \E in \in EvalInputs :
        /\ ev_pc[p] = "idle"
        /\ ev_in' = [ev_in EXCEPT ![p] = in]
        /\ ev_frame' = [ev_frame EXCEPT ![FrameOf(p)] = NoFrame]
        /\ ev_pc' = [ev_pc EXCEPT ![p] = "T_kelvin"]

\* line 193 entering mobility_temp_dep, line 115
EvalKelvin(p) ==
    /\ ev_pc[p] = "T_kelvin"
    /\ ev_frame' = [ev_frame EXCEPT ![FrameOf(p)].T_kelvin = T_kelvin(ev_in[p].Temp)]
    /\ ev_pc' = [ev_pc EXCEPT ![p] = "mobility"]
    /\ UNCHANGED ev_in

\* lines 116-117 and the assignment of line 193
EvalMobility(p) ==
    /\ ev_pc[p] = "mobility"
    /\ ev_frame' = [ev_frame EXCEPT ![FrameOf(p)].mu_eff =
            PyScale(ev_in[p].mu_base,
                    PyPow(PyDiv(F(300, 0), ev_frame[FrameOf(p)].T_kelvin, "py"),
                          3, 2, "py")).v]
    /\ ev_pc' = [ev_pc EXCEPT ![p] = "bandgap"]
    /\ UNCHANGED ev_in

\* line 194
EvalBandgap(p) ==
    /\ ev_pc[p] = "bandgap"
    /\ ev_frame' = [ev_frame EXCEPT ![FrameOf(p)].Eg_eff =
            bandgap_temp_dep(ev_in[p].Eg_base, ev_in[p].Temp, "py").v]
    /\ ev_pc' = [ev_pc EXCEPT ![p] = "breakdown"]
    /\ UNCHANGED ev_in

\* line 195
EvalBreakdown(p) ==
    /\ ev_pc[p] = "breakdown"
    /\ ev_frame' = [ev_frame EXCEPT ![FrameOf(p)].BV_pred =
            breakdown_voltage_model(ev_frame[FrameOf(p)].Eg_eff,
                                    thickness_default, "py").v]
    /\ ev_pc' = [ev_pc EXCEPT ![p] = "leakage"]
    /\ UNCHANGED ev_in

\* line 196
EvalLeakage(p) ==
    /\ ev_pc[p] = "leakage"
    /\ ev_frame' = [ev_frame EXCEPT ![FrameOf(p)].I_leak =
            leakage_current(ev_frame[FrameOf(p)].Eg_eff, ev_in[p].Temp, area_default)]
    /\ ev_pc' = [ev_pc EXCEPT ![p] = "drain"]
    /\ UNCHANGED ev_in

\* lines 200-202, with the voltage and geometry sliders at their defaults
EvalDrain(p) ==
    /\ ev_pc[p] = "drain"
    /\ ev_frame' = [ev_frame EXCEPT ![FrameOf(p)].Id_current =
            drain_current_model(ev_frame[FrameOf(p)].mu_eff, <<F(5, 0)>>,
                                linspace0(F(100, 0), SweepPoints),
                                ev_frame[FrameOf(p)].Eg_eff, ev_in[p].Temp,
                                Vth_default, F(100, -6), F(1, -6), Cox_default)]
    /\ ev_pc' = [ev_pc EXCEPT ![p] = "done"]
    /\ UNCHANGED ev_in

\* the run ends; the session waits for the next slider change
EvalEnd(p) ==
    /\ ev_pc[p] = "done"
    /\ ev_pc' = [ev_pc EXCEPT ![p] = "idle"]
    /\ ev_in' = [ev_in EXCEPT ![p] = NoInput]
    /\ ev_frame' = [ev_frame EXCEPT ![FrameOf(p)] = NoFrame]

NextEvals ==
    \E p \in Evaluations :
        /\ \/ EvalStart(p)
           \/ EvalKelvin(p)
           \/ EvalMobility(p)
           \/ EvalBandgap(p)
           \/ EvalBreakdown(p)
           \/ EvalLeakage(p)
           \/ EvalDrain(p)
           \/ EvalEnd(p)
        /\ UNCHANGED <<page, call, materials, graphs, reporting, navigation>>

SpecEvals == Init /\ [][NextEvals]_vars

SetMuBaseG ==
    \E x \in MuBaseValuesG \ {mu_base_g} :
        /\ mu_base_g' = x
        /\ UNCHANGED <<Eg_base_g, Vgs_sim>>
        /\ RerunGraphs
        /\ UNCHANGED <<page, call, materials, evals, reporting, navigation>>

SetEgBaseG ==
    \E x \in EgBaseValuesG \ {Eg_base_g} :
        /\ Eg_base_g' = x
        /\ UNCHANGED <<mu_base_g, Vgs_sim>>
        /\ RerunGraphs
        /\ UNCHANGED <<page, call, materials, evals, reporting, navigation>>

SetVgsSim ==
    \E x \in VgsSimValues \ {Vgs_sim} :
        /\ Vgs_sim' = x
        /\ UNCHANGED <<mu_base_g, Eg_base_g>>
        /\ RerunGraphs
        /\ UNCHANGED <<page, call, materials, evals, reporting, navigation>>

NextGraphs ==
    \/ SetMuBaseG
    \/ SetEgBaseG
    \/ SetVgsSim

SpecGraphs == Init /\ [][NextGraphs]_vars

Call_safe_text ==
    \E text \in TextInputs :
        /\ pdf_fn = "none"
        /\ pdf_fn' = "safe_text"
        /\ text_in' = text
        /\ text_out' = safe_text(text)
        /\ UNCHANGED pdf_lines
        /\ UNCHANGED <<page, call, materials, evals, graphs, navigation>>

\* create_safe_pdf: every pdf.cell and pdf.multi_cell is given
\* pdf.safe_text(...) of its text
Call_create_safe_pdf ==
    /\ pdf_fn = "none"
    /\ pdf_fn' = "create_safe_pdf"
    /\ pdf_lines' = [i \in 1..Len(report_texts) |-> safe_text(report_texts[i])]
    /\ UNCHANGED <<text_in, text_out>>
    /\ UNCHANGED <<page, call, materials, evals, graphs, navigation>>

ReturnReport ==
    /\ pdf_fn # "none"
    /\ pdf_fn' = "none"
    /\ text_in' = << >>
    /\ text_out' = << >>
    /\ pdf_lines' = << >>
    /\ UNCHANGED <<page, call, materials, evals, graphs, navigation>>

NextReport ==
    \/ Call_safe_text
    \/ Call_create_safe_pdf
    \/ ReturnReport

SpecReport == Init /\ [][NextReport]_vars

\* st.switch_page(target): the page of that path is run, or, when no page
\* has that path, StreamlitAPIException is raised and shown on the page the
\* button is on
switch_page(target) ==
    IF target \in page_files
    THEN /\ current_page' = target
         /\ visited' = visited \cup {target}
         /\ nav_error' = FALSE
    ELSE /\ nav_error' = TRUE
         /\ UNCHANGED <<current_page, visited>>

\* a press of the button with the given label on the page on screen
Press(lbl) ==
    \E b \in nav_buttons :
        /\ b.label = lbl
        /\ b.on = current_page
        /\ last_button' = b.label
        /\ switch_page(b.target)
        /\ UNCHANGED <<page, call, materials, evals, graphs, reporting>>

PressLaunch == Press("Launch Simulation Dashboard")

PressContinueToMaterials == Press("Continue to Material Properties")

PressProceedToSimulation == Press("Proceed to Simulation Interface")

PressProceedToGraphs == Press("Proceed to Graphs & Trends Analysis")

PressBackToSimulation == Press("Back to Simulation")

PressReferences == Press("References")

\* a click on an entry of the sidebar's page list
SidebarSelect ==
    \E p \in page_files :
        /\ p # current_page
        /\ current_page' = p
        /\ visited' = visited \cup {p}
        /\ last_button' = "sidebar"
        /\ nav_error' = FALSE
        /\ UNCHANGED <<page, call, materials, evals, graphs, reporting>>

NextNav ==
    \/ PressLaunch
    \/ PressContinueToMaterials
    \/ PressProceedToSimulation
    \/ PressProceedToGraphs
    \/ PressBackToSimulation
    \/ PressReferences
    \/ SidebarSelect

SpecNav == Init /\ [][NextNav]_vars

NextMaterials ==
    \/ SelectMaterial
    \/ SetTempM
    \/ SelectProperty
    \/ SelectChartType

SpecMaterials == Init /\ [][NextMaterials]_vars

----------------------------------------------------------------------------
(* Properties                                                              *)

DrainFns == {"drain_current_model", "drain_current_model_graphs"}

\* element i of the broadcast Vgs and Vds arguments of the recorded call
ArgVgs(i) == Bcast(arg.Vgs, i)

ArgVds(i) == Bcast(arg.Vds, i)

\* C1: floor invariant.  Every element of the array returned by either
\* drain_current_model (Simulation page, Graphs page) for valid inputs is at
\* least 1e-12; none is zero or negative.
C1_FloorInvariant ==
    (fn \in DrainFns /\ arg.W.m > 0 /\ arg.L.m > 0) =>
        /\ Len(res.arr) = BcastLen(arg.Vgs, arg.Vds)
        /\ \A i \in 1..Len(res.arr) : FLe(Id_floor, res.arr[i]) /\ res.arr[i].m > 0

\* a call whose value before the clamp is positive but below the floor, and
\* one whose value before the clamp is zero: both are returned as the floor
C1_Witness ==
    /\ fn = "drain_current_model"
    /\ \E i, j \in 1..Len(res.arr) :
        /\ res.pre[i].m > 0 /\ FLt(res.pre[i], Id_floor) /\ res.arr[i] = Id_floor
        /\ res.pre[j].m = 0 /\ res.arr[j] = Id_floor

\* C2: subthreshold override.  Wherever Vgs < Vth the returned current is
\* exactly 1e-12, whatever Vds, mobility, bandgap, temperature and geometry.
C2_SubthresholdOverride ==
    fn \in DrainFns =>
        \A i \in 1..Len(res.arr) : FLt(ArgVgs(i), arg.Vth) => res.arr[i] = Id_floor

\* Vgs = 0 < Vth at Vds = 100 V with the largest mobility: the saturation
\* formula gives a current far above the floor, and the floor is returned
C2_Witness ==
    /\ fn = "drain_current_model"
    /\ arg.mu = F(3000, 0) /\ arg.Vgs = <<F(0, 0)>> /\ arg.Vds = <<F(100, 0)>>
    /\ FLt(Id_floor,
           Id_sat(beta_gain(arg.mu, arg.W, arg.L, arg.Cox), F(0, 0), F(100, 0), arg.Vth))
    /\ res.arr = <<Id_floor>>

\* the current the specification gives for gate voltage g and drain voltage d
\* of the recorded call, before the floor clamp
C3_Expected(g, d) ==
    LET b    == FMul(FMul(FMul(arg.mu, arg.Cox), FDiv(arg.W, arg.L)), F(1, -4))
        ov   == FSub(g, arg.Vth)
        lin  == FMul(b, FSub(FMul(ov, d), FMul(F(5, -1), FMul(d, d))))
        sat  == FMul(FMul(FMul(F(5, -1), b), FMul(ov, ov)),
                     FAdd(F(1, 0), FMul(F(2, -2), d)))
        therm == FExp(FDiv(FNeg(FSub(arg.T, F(25, 0))), F(150, 0)))
        bandg == FRoot(FDiv(arg.Eg, F(34, -1)), 2)
    IN  FMul(FMul(IF FLt(d, ov) THEN lin ELSE sat, therm), bandg)

\* C3: region switch.  For Vgs >= Vth the value before the floor clamp is, per
\* element, beta*((Vgs-Vth)*Vds - 0.5*Vds^2) when Vds < Vgs - Vth and
\* 0.5*beta*(Vgs-Vth)^2*(1 + 0.02*Vds) when Vds >= Vgs - Vth, times the thermal
\* derating factor and the bandgap factor.
C3_RegionSwitch ==
    fn = "drain_current_model" =>
        \A i \in 1..Len(res.pre) :
            FLe(arg.Vth, ArgVgs(i)) => res.pre[i] = C3_Expected(ArgVgs(i), ArgVds(i))

\* one array call above the threshold with an element strictly inside the
\* linear region, one on the boundary Vds = Vgs - Vth and one beyond it
C3_Witness ==
    /\ fn = "drain_current_model"
    /\ Len(arg.Vds) > 1
    /\ \E i, j, k \in 1..Len(res.pre) :
        /\ FLt(arg.Vth, ArgVgs(i)) /\ ArgVds(i).m > 0
        /\ FLt(ArgVds(i), FSub(ArgVgs(i), arg.Vth))
        /\ ArgVds(j) = FSub(ArgVgs(j), arg.Vth) /\ FLt(arg.Vth, ArgVgs(j))
        /\ FLt(FSub(ArgVgs(k), arg.Vth), ArgVds(k)) /\ FLt(arg.Vth, ArgVgs(k))

\* a = b up to the rounding of the last digits of the float arithmetic
FClose(a, b) == FLe(FAbs(FSub(a, b)), FMul(F(1, -5), FAbs(b)))

\* C4: continuity at the region boundary.  For Vgs > Vth at Vds = Vgs - Vth the
\* saturation branch is taken and its value is the linear-branch value at the
\* same Vds times (1 + 0.02*Vds), both carrying the same thermal and bandgap
\* factors; the two branches differ by nothing else there.
C4_BoundaryContinuity ==
    fn = "drain_current_model" =>
        \A i \in 1..Len(res.pre) :
            (FLt(arg.Vth, ArgVgs(i)) /\ ArgVds(i) = FSub(ArgVgs(i), arg.Vth)) =>
                LET lin == Id_linear(beta_gain(arg.mu, arg.W, arg.L, arg.Cox),
                                     ArgVgs(i), ArgVds(i), arg.Vth)
                    clm == FAdd(F(1, 0), FMul(F(2, -2), ArgVds(i)))
                IN  FClose(res.pre[i],
                           FMul(FMul(FMul(lin, clm), thermal_factor(arg.T)),
                                bandgap_factor(arg.Eg)))

\* a call on the boundary whose current is above the floor
C4_Witness ==
    /\ fn = "drain_current_model"
    /\ \E i \in 1..Len(res.pre) :
        /\ FLt(arg.Vth, ArgVgs(i))
        /\ ArgVds(i) = FSub(ArgVgs(i), arg.Vth)
        /\ FLt(Id_floor, res.pre[i])
        /\ res.arr[i] = res.pre[i]

\* C5: zero drain voltage.  For Vgs > Vth (Vgs = 5 V, Vth = 2 V in the
\* scenario) at Vds = 0 the linear branch is taken, its value is exactly 0
\* before the clamp, and exactly 1e-12 is returned.
C5_ZeroDrainVoltage ==
    fn = "drain_current_model" =>
        \A i \in 1..Len(res.arr) :
            (FLt(arg.Vth, ArgVgs(i)) /\ ArgVds(i).m = 0) =>
                /\ Region(ArgVgs(i), ArgVds(i), arg.Vth) = "linear"
                /\ res.pre[i] = F(0, 0)
                /\ res.arr[i] = Id_floor

\* the scenario of the specification: Vgs = 5 V, Vth = 2 V, Vds = 0 V
C5_Witness ==
    /\ fn = "drain_current_model"
    /\ arg.Vgs = <<F(5, 0)>> /\ arg.Vth = F(2, 0) /\ arg.Vds = <<F(0, 0)>>
    /\ arg.mu = F(1342, 0)
    /\ res.pre = <<F(0, 0)>> /\ res.arr = <<Id_floor>>

\* C6: sweep alignment.  The Vds sweep, the drain-current array and the power
\* array of the Simulation page have the same number N of elements, and
\* power[i] = drain_current[i] * Vds[i] for every i, so power is 0 at Vds = 0.
C6_SweepAlignment ==
    /\ Len(Vds_range) = SweepPoints
    /\ Len(Id_current) = SweepPoints
    /\ Len(Power_diss) = SweepPoints
    /\ \A i \in 1..SweepPoints : Power_diss[i] = FMul(Id_current[i], Vds_range[i])
    /\ Vds_range[1] = F(0, 0)
    /\ Power_diss[1] = F(0, 0)

\* after the Vds_max slider was moved from its default, a sweep whose current
\* rises above the floor and whose power is positive at every point but the first
C6_Witness ==
    /\ Vds_max = F(10, 0)
    /\ Vds_range[SweepPoints] = Vds_max
    /\ \A i \in 2..SweepPoints :
        /\ FLt(Id_floor, Id_current[i])
        /\ Power_diss[i].m > 0
        /\ Power_diss[i] # Id_current[i]

CatalogNames == {"GaN", "AlGaN", "SiC", "GaAs", "Si"}

\* the exponent the specification gives for a material, as <<p, q>>
C7_Exponent(material) ==
    CASE material \in {"GaN", "AlGaN"} -> <<3, 2>>
      [] material = "SiC" -> <<2, 1>>
      [] OTHER -> <<17, 10>>

\* the Varshni pair <<alpha, beta>> the specification gives for a material
C7_Varshni(material) ==
    CASE material \in {"GaN", "AlGaN"} -> <<F(909, -6), F(830, 0)>>
      [] material = "SiC" -> <<F(3, -4), F(700, 0)>>
      [] OTHER -> <<F(5, -4), F(300, 0)>>

C7_Mobility(material) ==
    LET n == C7_Exponent(material)
    IN  FMul(arg.mu, FPow(FDiv(F(300, 0), FAdd(arg.T, F(27315, -2))), n[1], n[2]))

C7_Bandgap(material) ==
    LET c  == C7_Varshni(material)
        Tk == FAdd(arg.T, F(27315, -2))
    IN  FSub(arg.Eg, FDiv(FMul(c[1], FMul(Tk, Tk)), FAdd(Tk, c[2])))

C9_InvalidBandgapFails ==
    (fn \in {"breakdown_voltage_model", "breakdown_voltage_model_graphs"}
        /\ FLe(arg.Eg, F(0, 0))) => IsRaised(res)

\* C10: the mobility model fails whenever temperature_C <= -273.15: it returns
\* no mobility value for such a temperature.
C10_InvalidTemperatureFails ==
    (fn \in {"mobility_temp_dep", "mobility_temp_dep_material"}
        /\ FLe(FAdd(arg.T, F(27315, -2)), F(0, 0))) => IsRaised(res)

\* C11: drain_current_model fails whenever W <= 0 or L <= 0; it returns no
\* current for such a geometry.
C11_InvalidGeometryFails ==
    (fn = "drain_current_model" /\ (arg.W.m <= 0 \/ arg.L.m <= 0)) =>
        (IsRaised(res) /\ res.arr = << >>)

Range(f) == {f[i] : i \in DOMAIN f}

\* a dict of materials: exactly the five names, every listed field positive
FiveMaterials(keys) == Len(keys) = 5 /\ Range(keys) = CatalogNames

\* C12: catalog invariant.  Each material dict of the pages holds exactly
\* GaN, AlGaN, SiC, GaAs and Si, with positive bandgap, mobility, breakdown
\* field and thermal conductivity, and stays equal to its literal whatever
\* the pages evaluate.
C12_CatalogInvariant ==
    /\ FiveMaterials(catalog.keys)
    /\ \A k \in Range(catalog.keys) :
          /\ catalog.props[k].Bandgap.m > 0
          /\ catalog.props[k].Mobility.m > 0
          /\ catalog.props[k].Breakdown_Field.m > 0
          /\ catalog.props[k].Thermal_Conductivity.m > 0
    /\ catalog = material_properties_dict
    /\ FiveMaterials(material_data.keys)
    /\ \A k \in Range(material_data.keys) :
          \A r \in 1..4 : material_data.cols[k][r].m > 0
    /\ material_data = material_data_dict

\* C13: no observable staleness.  In every state of the Simulation page the
\* effective mobility, effective bandgap, breakdown voltage, leakage current,
\* drain-current sweep and power sweep shown equal the model functions
\* applied to the current slider values.
C13_NoStaleness ==
    LET mu  == mobility_temp_dep(mu_base, Temp, "py")
        Eg  == bandgap_temp_dep(Eg_base, Temp, "py")
        Vds == linspace0(Vds_max, SweepPoints)
        Id  == drain_current_model(mu.v, <<Vgs>>, Vds, Eg.v, Temp, Vth_default,
                                   FMul(channel_width, F(1, -6)),
                                   FMul(channel_length, F(1, -6)), Cox_default)
    IN  /\ mu_eff = mu
        /\ Eg_eff = Eg
        /\ BV_pred = breakdown_voltage_model(Eg.v, thickness_default, "py")
        /\ I_leak = leakage_current(Eg.v, Temp, area_default)
        /\ Vds_range = Vds
        /\ Id_current = Id
        /\ Power_diss = power_dissipation(Id, Vds)

\* every slider has been moved off its default, and the values shown are no
\* longer those of the first run (the gate is at or below threshold, so the
\* sweep has dropped to the floor)
C13_Witness ==
    /\ Eg_base # F(34, -1) /\ mu_base # F(1500, 0) /\ Temp # F(50, 0)
    /\ Vgs # F(5, 0) /\ Vds_max # F(100, 0)
    /\ channel_length # F(1, 0) /\ channel_width # F(100, 0)
    /\ mu_eff # mobility_temp_dep(F(1500, 0), F(50, 0), "py")
    /\ BV_pred # breakdown_voltage_model(
                      bandgap_temp_dep(F(34, -1), F(50, 0), "py").v,
                      thickness_default, "py")
    /\ Id_current[SweepPoints] = Id_floor

\* the derived state of one evaluation run alone on the inputs in
Alone(in) ==
    LET mu == mobility_temp_dep(in.mu_base, in.Temp, "py").v
        Eg == bandgap_temp_dep(in.Eg_base, in.Temp, "py").v
    IN  [T_kelvin |-> T_kelvin(in.Temp),
         mu_eff |-> mu,
         Eg_eff |-> Eg,
         BV_pred |-> breakdown_voltage_model(Eg, thickness_default, "py").v,
         I_leak |-> leakage_current(Eg, in.Temp, area_default),
         Id_current |-> drain_current_model(mu, <<F(5, 0)>>,
                            linspace0(F(100, 0), SweepPoints), Eg, in.Temp,
                            Vth_default, F(100, -6), F(1, -6), Cox_default)]

\* C14: concurrency safety.  An evaluation that finishes while another one
\* runs interleaved with it, on equal or different inputs, has derived
\* exactly the state it derives when run alone; the two share no frame.
C14_ConcurrencySafety ==
    /\ \A p \in Evaluations :
          ev_pc[p] = "done" => ev_frame[FrameOf(p)] = Alone(ev_in[p])
    /\ \A p, q \in Evaluations : p # q => FrameOf(p) # FrameOf(q)

\* one evaluation has finished while the other, started on different
\* inputs, is between its bandgap and breakdown steps
C14_Witness ==
    /\ ev_pc[1] = "done"
    /\ ev_pc[2] = "breakdown"
    /\ ev_in[1] # ev_in[2]
    /\ ev_frame[FrameOf(1)].mu_eff # ev_frame[FrameOf(2)].mu_eff

\* C15: evaluation order and data flow.  On every page the breakdown
\* voltage is computed from the effective bandgap and the drain current from
\* the effective mobility the temperature models returned, never from the
\* base values: the Simulation page's sweep comes from mu_eff and Eg_eff, and
\* the Graphs page's surface comes from an effective mobility of mu_T.
C15_DataFlow ==
    /\ BV_pred = breakdown_voltage_model(Eg_eff.v, thickness_default, "py")
    /\ Id_current = drain_current_model(mu_eff.v, <<Vgs>>, Vds_range, Eg_eff.v, Temp,
                                        Vth_default,
                                        FMul(channel_width, F(1, -6)),
                                        FMul(channel_length, F(1, -6)),
                                        Cox_default)
    /\ \A i \in 1..TrendPoints :
          BV_Eg_T[i] = breakdown_voltage_model_graphs(Eg_T[i].v, "np")
    /\ \E i \in 1..TrendPoints : ID_grid = ID_grid_of(mu_T[i].v)

\* the catalog materials in insertion order
C16_Order == <<"GaN", "AlGaN", "SiC", "GaAs", "Si">>

TempSteps == 11

\* the temperatures -50, ..., 500 C, TempSteps equal steps apart
TempGrid == Range(linspace(F(-50, 0), F(500, 0), TempSteps + 1))

InDomain(T) == FLe(F(-50, 0), T) /\ FLe(T, F(500, 0))

\* C17: bandgap_temp_dep(Eg0, T) is strictly decreasing in T over [-50, 500]
\* C: the value returned at T is above the value at every higher
\* temperature of the domain and below the value at every lower one.
C17_BandgapDecreasing ==
    (fn = "bandgap_temp_dep" /\ InDomain(arg.T)) =>
        /\ res.kind = "float"
        /\ \A T2 \in TempGrid :
              LET Eg2 == bandgap_temp_dep(arg.Eg, T2, arg.nk).v
              IN  /\ FLt(arg.T, T2) => FLt(Eg2, res.v)
                  /\ FLt(T2, arg.T) => FLt(res.v, Eg2)

\* a call inside the domain with grid temperatures on both sides
C17_Witness ==
    /\ fn = "bandgap_temp_dep"
    /\ arg.T = F(25, 0)
    /\ \E T1, T2 \in TempGrid :
          /\ FLt(T1, arg.T) /\ FLt(arg.T, T2)
          /\ FLt(res.v, bandgap_temp_dep(arg.Eg, T1, arg.nk).v)
          /\ FLt(bandgap_temp_dep(arg.Eg, T2, arg.nk).v, res.v)

\* |a - b| <= tol
Within(a, b, tol) == FLe(FAbs(FSub(a, b)), tol)

\* the call of the reference scenario: GaN, Eg0 = 3.4 eV, T = 25 C
C18_Scenario ==
    fn = "bandgap_temp_dep" /\ arg.Eg = F(34, -1) /\ arg.T = F(25, 0)

\* the breakdown voltage computed from the returned bandgap, 2 um thickness
C18_BV == breakdown_voltage_model(res.v, thickness_default, arg.nk).v

\* C18 as stated: in the reference scenario the effective bandgap is within
\* 0.01 eV of 3.399 eV and the breakdown voltage computed from it is within
\* 2% of 350 V.
C18_ReferenceAsStated ==
    C18_Scenario =>
        /\ Within(res.v, F(3399, -3), F(1, -2))
        /\ Within(C18_BV, F(350, 0), FMul(F(2, -2), F(350, 0)))

\* C18 amended: in the reference scenario the effective bandgap is within
\* 0.01 eV of 3.328 eV and the breakdown voltage computed from it is within
\* 2% of 332 V.
C18_ReferenceScenario ==
    C18_Scenario =>
        /\ res.kind = "float"
        /\ Within(res.v, F(3328, -3), F(1, -2))
        /\ Within(C18_BV, F(332, 0), FMul(F(2, -2), F(332, 0)))

\* the scenario call has returned a bandgap below the base bandgap
C18_Witness ==
    /\ C18_Scenario
    /\ res.kind = "float"
    /\ FLt(res.v, arg.Eg)
    /\ FLt(C18_BV, F(350, 0))

\* (300 / 298.15) ** 1.5 to six digits
C19_Ratio == F(100932, -5)

\* C19: at 25 C mobility_temp_dep returns mu0 * (300/298.15)^1.5: a value
\* above mu0 and within 1% of it, never mu0 itself; for mu0 = 1500 it is
\* within 1% of 1500.9.
C19_ReferenceMobility ==
    (fn = "mobility_temp_dep" /\ arg.T = F(25, 0)) =>
        /\ res.kind = "float"
        /\ Within(res.v, FMul(arg.mu, C19_Ratio), FMul(arg.mu, F(1, -4)))
        /\ res.v # arg.mu
        /\ Within(res.v, arg.mu, FMul(F(1, -2), arg.mu))
        /\ arg.mu = F(1500, 0) =>
              Within(res.v, F(15009, -1), FMul(F(1, -2), F(15009, -1)))

\* the scenario call: mu0 = 1500 at 25 C has returned more than 1500
C19_Witness ==
    /\ fn = "mobility_temp_dep"
    /\ arg.T = F(25, 0)
    /\ arg.mu = F(1500, 0)
    /\ res.kind = "float"
    /\ FLt(F(1500, 0), res.v)

\* C20: leakage_current is strictly positive for every Eg > 0 and
\* T_kelvin > 0, strictly increasing in temperature for a fixed bandgap and
\* strictly decreasing in bandgap for a fixed temperature.
C20_LeakageMonotone ==
    fn = "leakage_current" =>
        /\ res.v.m > 0
        /\ \A T2 \in CallLeakT :
              FLt(arg.T, T2) => FLt(res.v, leakage_current(arg.Eg, T2, area_default))
        /\ \A Eg2 \in CallLeakEg :
              FLt(arg.Eg, Eg2) => FLt(leakage_current(Eg2, arg.T, area_default), res.v)

\* C21: the slider bounds keep every evaluation in the valid domain.  In
\* every slider state of the Simulation page T_kelvin, the channel length and
\* the channel width are positive, the effective bandgap and the breakdown
\* voltage are positive floats, and the ratios Vds_max/BV_pred and
\* (BV_pred - Vds_max)/BV_pred are floats, not division errors; on the Graphs
\* page every temperature of the sweep, effective bandgap and breakdown
\* voltage is positive.
C21_ValidDomain ==
    /\ T_kelvin(Temp).m > 0
    /\ channel_length.m > 0
    /\ channel_width.m > 0
    /\ mu_eff.kind = "float" /\ mu_eff.v.m > 0
    /\ Eg_eff.kind = "float" /\ Eg_eff.v.m > 0
    /\ BV_pred.kind = "float" /\ BV_pred.v.m > 0
    /\ pct_of_limit.kind = "float"
    /\ headroom.kind = "float"
    /\ \A i \in 1..TrendPoints :
          /\ T_kelvin(T_range[i]).m > 0
          /\ Eg_T[i].kind = "float" /\ Eg_T[i].v.m > 0
          /\ BV_Eg_T[i].kind = "float" /\ BV_Eg_T[i].v.m > 0

\* the corner of the slider ranges where the bandgap and the breakdown
\* voltage are lowest: smallest base bandgap, highest temperature, shortest
\* channel, highest drain voltage; the headroom is negative there
C21_Witness ==
    /\ Eg_base = F(30, -1)
    /\ Temp = F(300, 0)
    /\ channel_length = F(1, -1)
    /\ Vds_max = F(500, 0)
    /\ FLt(Eg_eff.v, F(28, -1))
    /\ headroom.kind = "float" /\ headroom.v.m < 0

\* C22: report summary values.  The report carries, to the decimals of its
\* formats, the largest effective mobility, the smallest effective bandgap
\* and the largest breakdown voltage over the temperature sweep from 25 to
\* 300 C, each computed from the base mobility and base bandgap the sliders
\* hold in the same state.
C22_ReportSummary ==
    LET mu(i) == mobility_temp_dep(mu_base_g, T_range[i], "np").v
        Eg(i) == bandgap_temp_dep(Eg_base_g, T_range[i], "np").v
        BV(i) == breakdown_voltage_model_graphs(Eg(i), "np").v
        I == 1..TrendPoints
    IN  /\ T_range[1] = F(25, 0) /\ T_range[TrendPoints] = F(300, 0)
        /\ \E i \in I : /\ report.mu_max = FRound(mu(i), 2)
                        /\ \A j \in I : FLe(mu(j), mu(i))
        /\ \E i \in I : /\ report.eg_min = FRound(Eg(i), 4)
                        /\ \A j \in I : FLe(Eg(i), Eg(j))
        /\ \E i \in I : /\ report.bv_max = FRound(BV(i), 2)
                        /\ \A j \in I : FLe(BV(j), BV(i))
        /\ report.mu_base = mu_base_g
        /\ report.Eg_base = FRound(Eg_base_g, 3)

\* both base sliders have been moved, and the report carries values of the
\* new bases: a mobility above the new base and a bandgap below the new base
C22_Witness ==
    /\ mu_base_g = F(3000, 0)
    /\ Eg_base_g = F(40, -1)
    /\ FLt(F(3000, 0), report.mu_max)
    /\ FLt(report.eg_min, F(39, -1))
    /\ FLt(F(350, 0), report.bv_max)

\* the symbols safe_text transliterates: bullet, en and em dash, curly
\* double and single quotes, degree, multiplication and division signs,
\* Greek mu, superscript two and the subscript digits 0-9
C23_Symbols ==
    {"U+2022", "U+2013", "U+2014", "U+201C", "U+201D", "U+2018", "U+2019",
     "U+00B0", "U+00D7", "U+00F7", "U+03BC", "U+00B2",
     "U+2080", "U+2081", "U+2082", "U+2083", "U+2084",
     "U+2085", "U+2086", "U+2087", "U+2088", "U+2089"}

C24_ThresholdBoundary ==
    fn \in DrainFns =>
        \A i \in 1..Len(res.arr) :
            /\ (ArgVgs(i) = arg.Vth /\ ArgVds(i).m >= 0) => res.arr[i] = Id_floor
            /\ FLt(Id_floor, res.arr[i]) => FLt(arg.Vth, ArgVgs(i))

\* a sweep at Vgs = Vth = 2 V up to Vds = 8 V: zero before the clamp,
\* the floor after it, at each of its points
C24_Witness ==
    /\ fn = "drain_current_model"
    /\ arg.Vgs = <<F(2, 0)>> /\ arg.Vth = F(2, 0)
    /\ arg.Vds = <<F(0, 0), F(1, 0), F(3, 0), F(8, 0)>>
    /\ arg.W.m > 0 /\ arg.L.m > 0
    /\ \A i \in 1..Len(res.arr) : res.pre[i].m = 0 /\ res.arr[i] = Id_floor

\* C25: monotone sweep.  Along the sweep Vds_range (ascending from 0) the
\* drain current and the dissipated power never decrease, so the maxima
\* the page shows are the values at the last sweep point.
C25_MonotoneSweep ==
    /\ \A i, j \in 1..SweepPoints :
           FLe(Vds_range[i], Vds_range[j]) =>
               /\ FLe(Id_current[i], Id_current[j])
               /\ FLe(Power_diss[i], Power_diss[j])
    /\ max_current = FMul(Id_current[SweepPoints], F(1000, 0))
    /\ max_power = FMul(Power_diss[SweepPoints], F(1000, 0))

\* a sweep above threshold whose second point lies in the linear region and
\* whose current rises strictly up to the last point
C25_Witness ==
    /\ FLt(Vth_default, Vgs)
    /\ Region(Vgs, Vds_range[2], Vth_default) = "linear"
    /\ Region(Vgs, Vds_range[SweepPoints], Vth_default) = "saturation"
    /\ FLt(Id_current[2], Id_current[SweepPoints])
    /\ FLt(Id_current[SweepPoints - 1], Id_current[SweepPoints])
    /\ max_current = FMul(Id_current[SweepPoints], F(1000, 0))

\* C26: the on-resistance and the figure of merit never divide by zero.  The
\* current at the second sweep point is positive in every page state, so
\* the guard Id_current[1] > 0 holds, the fallbacks 0 and 1e9 are never
\* taken, and below threshold the on-resistance is Vds_range[1]/1e-12.
C26_GuardAlwaysTrue ==
    /\ Id_current[2].m > 0
    /\ on_resistance = FDiv(Vds_range[2], Id_current[2])
    /\ fom = Val(FDiv(FMul(BV_pred.v, BV_pred.v), FDiv(Vds_range[2], Id_current[2])))
    /\ FLt(Vgs, Vth_default) => on_resistance = FDiv(Vds_range[2], Id_floor)

\* a subthreshold run: a positive on-resistance over the floor current
C26_Witness ==
    /\ FLt(Vgs, Vth_default)
    /\ Id_current[2] = Id_floor
    /\ Vds_range[2].m > 0
    /\ on_resistance = FDiv(Vds_range[2], Id_floor)
    /\ on_resistance.m > 0
    /\ fom.kind = "float"

\* C27: consistency of the safety verdict.  The message that all parameters
\* are within safe operating limits is shown only when the breakdown status
\* is Safe.
C27_VerdictOnlyWhenSafe == success => bv_status = "Safe"

\* C28: the leakage status is constant.  In every page state the leakage
\* current is below 1e-16 A and the status shown is Low.
C28_LeakageLow ==
    /\ FLt(I_leak, F(1, -16))
    /\ leak_status = "Low"

\* the page state with the largest leakage: the smallest base bandgap at the
\* highest temperature, a positive current still far below 1e-16 A
C28_Witness ==
    /\ Eg_base = F(30, -1) /\ Temp = F(300, 0)
    /\ I_leak.m > 0
    /\ FLt(I_leak, F(1, -16))
    /\ leak_status = "Low"

\* the Graphs page's drain_current_model on the mobility, voltages, threshold
\* and geometry of the recorded call
C29_GraphsCopy ==
    drain_current_model_graphs(arg.mu, arg.Vgs, arg.Vds, arg.Vth, arg.W, arg.L,
                               Cox_default)

\* C29: the two copies of the drain-current model agree at the reference
\* point.  At T = 25 C and Eg_eff = 3.4 eV the Simulation page's function
\* returns what the Graphs page's function returns on the same mobility,
\* voltages, threshold and geometry; at any other T and Eg_eff an element
\* above the floor in both is the Graphs value times the thermal and the
\* bandgap factor.
C29_CopiesAgree ==
    (fn = "drain_current_model" /\ arg.W.m > 0 /\ arg.L.m > 0) =>
        /\ (arg.T = F(25, 0) /\ arg.Eg = F(34, -1)) =>
               /\ thermal_factor(arg.T) = F(1, 0)
               /\ bandgap_factor(arg.Eg) = F(1, 0)
               /\ res.arr = C29_GraphsCopy
        /\ \A i \in 1..Len(res.arr) :
               (FLt(Id_floor, res.arr[i]) /\ FLt(Id_floor, C29_GraphsCopy[i])) =>
                   res.arr[i] = FMul(FMul(C29_GraphsCopy[i], thermal_factor(arg.T)),
                                     bandgap_factor(arg.Eg))

\* a call at the reference point over a sweep with a linear and a saturation
\* element above the floor, equal to the Graphs copy element by element
C29_Witness ==
    /\ fn = "drain_current_model"
    /\ arg.T = F(25, 0) /\ arg.Eg = F(34, -1)
    /\ arg.W.m > 0 /\ arg.L.m > 0
    /\ arg.Vgs = <<F(5, 0)>> /\ arg.Vds = <<F(0, 0), F(1, 0), F(3, 0), F(8, 0)>>
    /\ FLt(Id_floor, res.arr[2]) /\ FLt(res.arr[2], res.arr[4])
    /\ res.arr = C29_GraphsCopy

\* a call away from the reference point with an element above the floor
\* that differs from the Graphs copy
C29_WitnessElsewhere ==
    /\ fn = "drain_current_model"
    /\ arg.T = F(300, 0) /\ arg.Eg = F(1, 0)
    /\ arg.W.m > 0 /\ arg.L.m > 0
    /\ Len(res.arr) = 4
    /\ FLt(Id_floor, res.arr[4]) /\ FLt(res.arr[4], C29_GraphsCopy[4])

\* C30: navigation reaches every page.  No button press fails, every button
\* targets an existing page file, and the References button of the Graphs
\* page leads to the Conclusion and References page.
C30_NavigationReachesEveryPage ==
    /\ nav_error = FALSE
    /\ last_button = "References" => current_page = "pages/5_Conclusion_and_References.py"

\* the walk by forward buttons alone never shows the Conclusion and
\* References page: it is on screen only after a click in the sidebar
C30_ForwardWalkStopsAtGraphs ==
    current_page = "pages/5_Conclusion_and_References.py" => last_button = "sidebar"

\* the Back button of the Graphs page returns to the Simulation page
C30_BackReturns ==
    last_button = "Back to Simulation" =>
        current_page = "pages/3_Simulation_Interface.py" /\ nav_error = FALSE

====
